---------------------------- MODULE Spec2Model ----------------------------
(***************************************************************************)
(* Model of the ecosystem agent: the Q&A ledger parser and mutator         *)
(* (TeamAgent.parseQABoard / updateQABoard), the multi-file commit built   *)
(* by GitHubClient.createCommit, and the scheduled run (handleScheduled,   *)
(* TeamAgent.execute).                                                     *)
(*                                                                         *)
(* Text is modelled at the level the code's regular expressions read it:   *)
(* a document is a sequence of lines and every line is a record            *)
(*   [k |-> kind, x, y]                                                    *)
(* with kind one of                                                        *)
(*   "hdr"      ### [Q-x] title           x: the digits of the header,     *)
(*                                        y: the first run of digits of    *)
(*                                           the title ("" when none)      *)
(*   "from"     **From**: x -> **To**: y  x, y as written ("" when the     *)
(*                                        line does not match the pattern) *)
(*   "status"   **Status**: x             x: glyph and label               *)
(*   "question" **Question**: x                                            *)
(*   "answer"   **Answer**: x             x: the text after the label      *)
(*   "answered" **Answered**: date by x (Autonomous Agent)                 *)
(*   "blank", "text"                      any other line                   *)
(* Question identifiers are written without their constant prefix "Q-".    *)
(* Lines of kind "text" hold none of the markers the patterns look for.    *)
(***************************************************************************)
EXTENDS Integers, Sequences, FiniteSets, TLC

VARIABLES
    lg_in,      \* ledger handed to the latest ledger operation
    lg_out,     \* ledger it left (the current ledger)
    lg_op,      \* the latest ledger operation: "none", "update" or "parse"
    lg_id,      \* question id of the latest update
    lg_ans,     \* answer text of the latest update
    lg_n,       \* successive updates with that same id
    lg_first,   \* whether the first of them changed the ledger
    lg_ops,     \* ledger operations applied so far
    lg_parsed   \* result of the latest parse

ledgerVars ==
    <<lg_in, lg_out, lg_op, lg_id, lg_ans, lg_n, lg_first, lg_ops, lg_parsed>>

VARIABLES
    gh_ref,     \* per repository: the commit the working branch points at
                \* (0 when the branch does not exist)
    gh_commits, \* the commit objects of the host; a commit's id is its index
    cc,         \* the frame of the createCommit call in progress
    cc_calls,   \* createCommit calls started so far
    fails       \* external calls that have failed so far

hostVars == <<gh_ref, gh_commits>>
commitVars == <<hostVars, cc, cc_calls>>

VARIABLES
    pc,            \* position of handleScheduled
    tm,             \* index in TEAMS of the team being processed
    agent,         \* the TeamAgent of that team
    results,       \* results of handleScheduled
    agents,        \* agents of handleScheduled
    issuesCreated, \* issuesCreated of handleScheduled
    prUrl,         \* prUrl of handleScheduled
    totalCost,     \* totalCost of handleScheduled, in cents
    alerts,        \* calls of sendCostAlert
    sel,           \* successfulTeams of createPullRequest
    ci,             \* position of its commit loop in sel
    cacheLoads,    \* calls of mnemo.loadTeamDocs
    gh_issues,     \* issues opened on the host, by repository
    gh_prs,        \* pull requests opened on the host, by repository
    ledgerDown,    \* teams for which a fetch of the ledger has failed
    passes,        \* the passes of the commit loop of createPullRequest so far
    answered,      \* the questions the latest Answer phase selected (under
                   \* SpecReview: those given to the Review loop), and the
                   \* outcome of the processing of each
    calls,         \* the external calls of the run in program order, the
                   \* one the run stands at, and those issued and not settled
    suspended      \* a second run of handleScheduled: the frame of the
                   \* createCommit call of the run that is not executing,
                   \* the run that is, and the runs started

runVars ==
    <<pc, tm, agent, results, agents, issuesCreated, prUrl, totalCost, alerts,
      sel, ci, cacheLoads, gh_issues, gh_prs, ledgerDown, passes,
      answered, calls, suspended>>

vars == <<ledgerVars, commitVars, fails, runVars>>

(***************************************************************************)
(* Team configuration                                                      *)
(***************************************************************************)
TEAMS ==
    << [name |-> "nexus", displayName |-> "Nexus",
        qaAnswerMarker |-> "_Waiting for Nexus response_"],
       [name |-> "de", displayName |-> "DE (Distributed Electrons)",
        qaAnswerMarker |-> "_Waiting for DE response_"],
       [name |-> "mnemo", displayName |-> "Mnemo",
        qaAnswerMarker |-> "_Waiting for Mnemo response_"] >>

TeamIdx == 1..Len(TEAMS)

\* The texts that begin with the characters "_Waiting".
WaitingTokens == { TEAMS[i].qaAnswerMarker : i \in TeamIdx }

(***************************************************************************)
(* Status texts of the ledger and the glyph each one starts with           *)
(***************************************************************************)
StatusOpen == "yellow Open"
StatusAnswered == "green Answered"
StatusClosed == "check Closed"
StatusBlocked == "red Blocked"

StatusTexts == {StatusOpen, StatusAnswered, StatusClosed, StatusBlocked}

Undefined == "undefined"

\* line.match(/(glyph|glyph|glyph|glyph)/)?.[0]: the glyph alone.
MatchGlyph(text) ==
    CASE text = StatusOpen -> "yellow"
      [] text = StatusAnswered -> "green"
      [] text = StatusClosed -> "check"
      [] text = StatusBlocked -> "red"
      [] OTHER -> Undefined

\* String.prototype.toLowerCase on the team names the ledger writes.
ToLowerCase(s) ==
    CASE s = "Nexus" -> "nexus"
      [] s = "DE" -> "de"
      [] s = "Mnemo" -> "mnemo"
      [] OTHER -> s

(***************************************************************************)
(* Lines                                                                   *)
(***************************************************************************)
Line(k, x, y) == [k |-> k, x |-> x, y |-> y]

HdrLine(n, titleDigits) == Line("hdr", n, titleDigits)
FromLine(by, to) == Line("from", by, to)
StatusLine(text) == Line("status", text, "")
QuestionLine == Line("question", "", "")
AnswerLine(text) == Line("answer", text, "")
AnsweredLine(displayName) == Line("answered", displayName, "")
BlankLine == Line("blank", "", "")

IsHdr(l) == l.k = "hdr"

\* answer.startsWith('_Waiting'), and the pattern's "_Waiting[^\n]*"
StartsWithWaiting(text) == text \in WaitingTokens

(***************************************************************************)
(* parseQABoard                                                            *)
(***************************************************************************)
\* Positions of the lines that match /###\s+\[Q-\d+\]/, in order.
RECURSIVE HeaderPositions(_, _)
HeaderPositions(markdown, i) ==
    IF i > Len(markdown) THEN <<>>
    ELSE IF IsHdr(markdown[i])
         THEN <<i>> \o HeaderPositions(markdown, i + 1)
         ELSE HeaderPositions(markdown, i + 1)

\* markdown.split(header).slice(1): block b runs from the text that follows
\* header b to the line before the next header.
BlockEnd(markdown, hs, b) ==
    IF b < Len(hs) THEN hs[b + 1] - 1 ELSE Len(markdown)

\* The question record before the loop over the lines: the id is read from
\* the title line, which is what follows the header the split removed.
NewQuestion(hdr) ==
    [ id |-> IF hdr.y # "" THEN hdr.y ELSE "000",
      askedBy |-> Undefined,
      askedTo |-> Undefined,
      status |-> Undefined,
      hasBody |-> FALSE,
      answerBody |-> Undefined ]

\* One pass of "for (const line of lines)".
ParseLine(q, l) ==
    CASE l.k = "from" ->
           IF l.x # "" /\ l.y # ""
           THEN [q EXCEPT !.askedBy = ToLowerCase(l.x),
                          !.askedTo = ToLowerCase(l.y)]
           ELSE q
      [] l.k = "status" -> [q EXCEPT !.status = MatchGlyph(l.x)]
      [] l.k = "question" -> [q EXCEPT !.hasBody = TRUE]
      [] l.k = "answer" ->
           IF ~StartsWithWaiting(l.x)
           THEN [q EXCEPT !.answerBody = l.x]
           ELSE q
      [] OTHER -> q

RECURSIVE ParseLines(_, _, _, _)
ParseLines(q, markdown, i, last) ==
    IF i > last THEN q
    ELSE ParseLines(ParseLine(q, markdown[i]), markdown, i + 1, last)

ParseBlock(markdown, hs, b) ==
    ParseLines(NewQuestion(markdown[hs[b]]), markdown,
               hs[b] + 1, BlockEnd(markdown, hs, b))

\* IsValidQuestion as it would be if only the id were required.
IsValidQuestionIdOnly(q) == q.id # ""

\* if (question.id && question.askedTo && question.askedBy)
IsValidQuestion(q) ==
    q.id # "" /\ q.askedTo # Undefined /\ q.askedBy # Undefined

RECURSIVE ParseBlocks(_, _, _)
ParseBlocks(markdown, hs, b) ==
    IF b > Len(hs) THEN <<>>
    ELSE LET q == ParseBlock(markdown, hs, b)
         IN  (IF IsValidQuestion(q) THEN <<q>> ELSE <<>>)
             \o ParseBlocks(markdown, hs, b + 1)

parseQABoard(markdown) ==
    ParseBlocks(markdown, HeaderPositions(markdown, 1), 1)

(***************************************************************************)
(* updateQABoard: the two replacements                                     *)
(***************************************************************************)
\* First line at or after i that holds "### [questionId]"; 0 when none.
RECURSIVE FindHeader(_, _, _)
FindHeader(content, questionId, i) ==
    IF i > Len(content) THEN 0
    ELSE IF IsHdr(content[i]) /\ content[i].x = questionId THEN i
         ELSE FindHeader(content, questionId, i + 1)

\* First line at or after i that holds "**Answer**:\s*_Waiting"; 0 when none.
RECURSIVE FindWaitingAnswer(_, _)
FindWaitingAnswer(content, i) ==
    IF i > Len(content) THEN 0
    ELSE IF content[i].k = "answer" /\ StartsWithWaiting(content[i].x) THEN i
         ELSE FindWaitingAnswer(content, i + 1)

\* First line at or after i that holds "**Status**:\s*<yellow> Open"; 0 when none.
RECURSIVE FindOpenStatus(_, _)
FindOpenStatus(content, i) ==
    IF i > Len(content) THEN 0
    ELSE IF content[i].k = "status" /\ content[i].x = StatusOpen THEN i
         ELSE FindOpenStatus(content, i + 1)

Splice(content, j, lines) ==
    SubSeq(content, 1, j - 1) \o lines \o SubSeq(content, j + 1, Len(content))

\* A replacement string is not inserted as written: String.prototype.replace
\* reads "$$" in it as one "$".
ExpandReplacement(answer) ==
    CASE answer = "echo $$" -> "echo $"
      [] OTHER -> answer

\* content.replace(/(### \[id\][\s\S]*?\*\*Answer\*\*:)\s*_Waiting[^\n]*/g,
\*                 "$1 answer\n\n**Answered**: date by displayName ...")
\* The lazy [\s\S]*? runs from the header to the first waiting Answer line
\* that follows it, whichever block holds that line; /g resumes after it.
RECURSIVE ReplaceAnswer(_, _, _, _, _)
ReplaceAnswer(content, questionId, answer, displayName, i) ==
    LET h == FindHeader(content, questionId, i)
        j == IF h = 0 THEN 0 ELSE FindWaitingAnswer(content, h + 1)
    IN  IF j = 0 THEN content
        ELSE ReplaceAnswer(
                 Splice(content, j, << AnswerLine(ExpandReplacement(answer)),
                                       BlankLine,
                                       AnsweredLine(displayName) >>),
                 questionId, answer, displayName, j + 3)

\* content.replace(/(### \[id\][\s\S]*?\*\*Status\*\*:)\s*<yellow> Open/g,
\*                 "$1 <green> Answered")
RECURSIVE ReplaceStatus(_, _, _)
ReplaceStatus(content, questionId, i) ==
    LET h == FindHeader(content, questionId, i)
        j == IF h = 0 THEN 0 ELSE FindOpenStatus(content, h + 1)
    IN  IF j = 0 THEN content
        ELSE ReplaceStatus(Splice(content, j, <<StatusLine(StatusAnswered)>>),
                           questionId, j + 1)

\* The new content updateQABoard registers for the ledger path.
UpdatedBoard(content, questionId, answer, displayName) ==
    ReplaceStatus(ReplaceAnswer(content, questionId, answer, displayName, 1),
                  questionId, 1)

(***************************************************************************)
(* Ledger documents the ledger operations are applied to                   *)
(***************************************************************************)
MaxBlocks == 2
MaxLedgerOps == 2

\* Any line that precedes the first entry header (the document title).
Preamble == <<Line("text", "", "")>>

\* Entry b is headed "### [Q-b]"; every second title holds a number.
HdrDigits(b) == ToString(b)
TitleDigits(b) == IF b % 2 = 0 THEN "2" ELSE ""

\* The From/To line of entry b: well formed, not matching the pattern
\* (no arrow), or missing.
FromChoices == {"ok", "malformed", "absent"}
FromLines(b, f) ==
    CASE f = "ok" ->
           << CASE b % 3 = 1 -> FromLine("Nexus", "DE")
                [] b % 3 = 2 -> FromLine("Mnemo", "DE")
                [] OTHER -> FromLine("DE", "Nexus") >>
      [] f = "malformed" -> <<FromLine("", "")>>
      [] OTHER -> <<>>

StatusChoices == {StatusOpen, StatusAnswered, StatusBlocked}
AnswerChoices == {"_Waiting for DE response_", "X"}

Block(b, f, s, a) ==
    <<HdrLine(HdrDigits(b), TitleDigits(b))>> \o FromLines(b, f)
        \o <<StatusLine(s), QuestionLine, AnswerLine(a), BlankLine>>

RECURSIVE Boards(_)
Boards(n) ==
    IF n = 0 THEN {Preamble}
    ELSE { bd \o Block(n, f, s, a) :
             bd \in Boards(n - 1), f \in FromChoices,
             s \in StatusChoices, a \in AnswerChoices }

\* The empty document is what a failed fetch of the ledger yields.
AllBoards == {<<>>} \cup UNION { Boards(n) : n \in 0..MaxBlocks }

\* Identifiers handed to updateQABoard: the headers' and the fallback "000".
QuestionIds == { HdrDigits(b) : b \in 1..MaxBlocks } \cup {"000"}

\* Texts mnemo.query returns as answers; they may hold "$$" (see
\* ExpandReplacement).
AnswerTexts == {"X", "echo $$"}

(***************************************************************************)
(* The version-control host, as createCommit sees it                       *)
(*                                                                         *)
(* Objects are content addressed: a blob's sha stands for its content and  *)
(* a tree's sha for the tree, a function from the paths it holds to their  *)
(* blobs.  A commit's sha is fresh.  A call that fails leaves the host as  *)
(* it was.                                                                 *)
(***************************************************************************)
MaxFailures == 2
MaxCommitCalls == 2

qaPath == "docs/CROSS-TEAM-QA-BOARD.md"
insightsPath == "docs/QA-INSIGHTS.md"
mcpPath == "docs/MCP-UPDATES.md"

\* A failed external call: fetch rejects or the response is not ok.
CanFail == fails < MaxFailures

IdleFrame ==
    [ pc |-> "idle", repo |-> 0, files |-> <<>>, i |-> 0, baseSha |-> 0,
      baseTree |-> <<>>, tree |-> <<>>, newTree |-> <<>>, sha |-> 0,
      ref0 |-> 0, commits0 |-> 0 ]

\* Entry of createCommit(owner, repo, branch, message, files); ref0 and
\* commits0 remember the host at entry.
EnterCreateCommit(repo, files) ==
    [ IdleFrame EXCEPT !.pc = "getRef", !.repo = repo, !.files = files,
                       !.ref0 = gh_ref[repo], !.commits0 = Len(gh_commits) ]

Throw(frame) == [frame EXCEPT !.pc = "thrown"]

\* Overlay as it would be with base_tree left out of the request: the new
\* tree holds the given entries only.
OverlayNoBase(base, entries) ==
    [ p \in { entries[i].path : i \in 1..Len(entries) } |->
        entries[CHOOSE i \in 1..Len(entries) : entries[i].path = p].sha ]

\* git/trees with base_tree: the entries given replace or add to the base's.
RECURSIVE Overlay(_, _)
Overlay(base, entries) ==
    IF entries = <<>> THEN base
    ELSE LET e == Head(entries)
             t == [ p \in DOMAIN base \cup {e.path} |->
                      IF p = e.path THEN e.sha ELSE base[p] ]
         IN  Overlay(t, Tail(entries))

\* GET git/refs/heads/<branch>
CCGetRef ==
    /\ cc.pc = "getRef"
    /\ \/ /\ gh_ref[cc.repo] # 0
          /\ cc' = [cc EXCEPT !.pc = "getCommit", !.baseSha = gh_ref[cc.repo]]
          /\ UNCHANGED fails
       \/ /\ CanFail \/ gh_ref[cc.repo] = 0
          /\ cc' = Throw(cc)
          /\ fails' = IF gh_ref[cc.repo] = 0 THEN fails ELSE fails + 1
    /\ UNCHANGED <<hostVars, cc_calls, ledgerVars, runVars>>

\* GET git/commits/<baseSha>
CCGetCommit ==
    /\ cc.pc = "getCommit"
    /\ \/ /\ cc' = [cc EXCEPT !.pc = IF cc.files = <<>> THEN "tree" ELSE "blob",
                              !.i = 1,
                              !.baseTree = gh_commits[cc.baseSha].tree]
          /\ UNCHANGED fails
       \/ /\ CanFail
          /\ cc' = Throw(cc)
          /\ fails' = fails + 1
    /\ UNCHANGED <<hostVars, cc_calls, ledgerVars, runVars>>

\* CCBlob as it would be if every file were committed on its own: the
\* blob is followed at once by a tree, a commit and the move of the ref.
CCBlobPerFile ==
    /\ cc.pc = "blob"
    /\ LET e == [path |-> cc.files[cc.i].path, sha |-> cc.files[cc.i].content]
           head == gh_ref[cc.repo]
       IN  /\ gh_commits' = Append(gh_commits,
                                   [tree |-> Overlay(gh_commits[head].tree, <<e>>),
                                    parents |-> <<head>>])
           /\ gh_ref' = [gh_ref EXCEPT ![cc.repo] = Len(gh_commits) + 1]
           /\ cc' = [cc EXCEPT
                       !.tree = Append(cc.tree, e),
                       !.i = cc.i + 1,
                       !.pc = IF cc.i = Len(cc.files) THEN "tree" ELSE "blob"]
    /\ UNCHANGED <<fails, cc_calls, ledgerVars, runVars>>

\* POST git/blobs for files[i], then tree.push(...)
CCBlob ==
    /\ cc.pc = "blob"
    /\ \/ /\ cc' = [cc EXCEPT
                      !.tree = Append(cc.tree, [path |-> cc.files[cc.i].path,
                                                sha |-> cc.files[cc.i].content]),
                      !.i = cc.i + 1,
                      !.pc = IF cc.i = Len(cc.files) THEN "tree" ELSE "blob"]
          /\ UNCHANGED fails
       \/ /\ CanFail
          /\ cc' = Throw(cc)
          /\ fails' = fails + 1
    /\ UNCHANGED <<hostVars, cc_calls, ledgerVars, runVars>>

\* POST git/trees {base_tree, tree}
CCTree ==
    /\ cc.pc = "tree"
    /\ \/ /\ cc' = [cc EXCEPT !.pc = "commit",
                              !.newTree = Overlay(cc.baseTree, cc.tree)]
          /\ UNCHANGED fails
       \/ /\ CanFail
          /\ cc' = Throw(cc)
          /\ fails' = fails + 1
    /\ UNCHANGED <<hostVars, cc_calls, ledgerVars, runVars>>

\* POST git/commits {message, tree, parents: [baseSha]}
CCCommit ==
    /\ cc.pc = "commit"
    /\ \/ /\ gh_commits' = Append(gh_commits,
                                  [tree |-> cc.newTree, parents |-> <<cc.baseSha>>])
          /\ cc' = [cc EXCEPT !.pc = "patch", !.sha = Len(gh_commits) + 1]
          /\ UNCHANGED fails
       \/ /\ CanFail
          /\ cc' = Throw(cc)
          /\ fails' = fails + 1
          /\ UNCHANGED gh_commits
    /\ UNCHANGED <<gh_ref, cc_calls, ledgerVars, runVars>>

\* PATCH git/refs/heads/<branch> {sha}, then return commit.sha.  The request
\* carries no force flag, so the host moves the branch only forward: it
\* refuses the update when the branch no longer points at the parent of the
\* new commit.
CCPatch ==
    /\ cc.pc = "patch"
    /\ \/ /\ gh_ref[cc.repo] = cc.baseSha
          /\ gh_ref' = [gh_ref EXCEPT ![cc.repo] = cc.sha]
          /\ cc' = [cc EXCEPT !.pc = "returned"]
          /\ UNCHANGED fails
       \/ /\ CanFail \/ gh_ref[cc.repo] # cc.baseSha
          /\ cc' = Throw(cc)
          /\ fails' = IF gh_ref[cc.repo] # cc.baseSha THEN fails ELSE fails + 1
          /\ UNCHANGED gh_ref
    /\ UNCHANGED <<gh_commits, cc_calls, ledgerVars, runVars>>

createCommit == CCGetRef \/ CCGetCommit \/ CCBlob \/ CCTree \/ CCCommit \/ CCPatch

(***************************************************************************)
(* The answering service and the texts it returns                          *)
(***************************************************************************)
\* Responses to the query of checkMCPUpdates.
McpResponses == {"", "No updates", "Guide 3: use D1 batch API"}

\* Responses to the query of updateReadme.
ReadmeResponses == {"No Updates Needed.", "Add a setup section"}

\* String.prototype.length of the responses above.
TextLength(s) ==
    CASE s = "" -> 0
      [] s = "No updates" -> 10
      [] s = "Guide 3: use D1 batch API" -> 25
      [] OTHER -> 1

\* review.toLowerCase().includes('no updates needed')
SaysNoUpdatesNeeded(review) ==
    CASE review = "No Updates Needed." -> TRUE
      [] OTHER -> FALSE

\* Cost estimates, in cents (the code adds 0.02 and 0.03 dollars as doubles;
\* the sums a run reaches are far from where rounding could change the
\* comparison with the threshold).
CostPerAnswer == 2
CostPerReview == 2
CostPerMcpUpdate == 3
CostPerActionPlan == 3
CostPerReadme == 2
CostThreshold == 5000
MinMcpLength == 10

actionPlanPath == "docs/ACTION-PLAN.md"
readmePath == "README.md"

(***************************************************************************)
(* TeamAgent                                                               *)
(***************************************************************************)
\* The result record the constructor builds.
NewResult(team) ==
    [ team |-> team.name,
      success |-> FALSE,
      questionsAnswered |-> 0,
      answersReviewed |-> 0,
      docsUpdated |-> <<>>,
      mcpUpdatesProcessed |-> 0,
      actionPlanUpdated |-> FALSE,
      readmeUpdated |-> FALSE,
      errors |-> <<>>,
      costEstimate |-> 0 ]

\* new TeamAgent(team, mnemo, github); fileChanges is the Map, kept as the
\* list of its entries in insertion order.
NewAgent(i) ==
    [ team |-> i, result |-> NewResult(TEAMS[i]), fileChanges |-> <<>> ]

\* A list of writes in place of the Map: every write adds an entry.
MapAppend(fileChanges, path, content) ==
    Append(fileChanges, [path |-> path, content |-> content])

\* Map.prototype.set: a path already present keeps its place and takes the
\* new content.
MapSet(fileChanges, path, content) ==
    IF \E i \in 1..Len(fileChanges) : fileChanges[i].path = path
    THEN [ i \in 1..Len(fileChanges) |->
             IF fileChanges[i].path = path
             THEN [path |-> path, content |-> content]
             ELSE fileChanges[i] ]
    ELSE Append(fileChanges, [path |-> path, content |-> content])

\* getFileChanges()
getFileChanges(ag) == ag.fileChanges

PushError(ag, what, id) ==
    [ag EXCEPT !.result.errors = Append(@, [what |-> what, id |-> id])]

\* The tree of the main branch of a team's repository: the first commit of
\* repository r is commit r.
MainTree(r) == gh_commits[r].tree

\* github.getFile(owner, repo, path): the content on main, or '' when the
\* file is missing or the request fails (the error is caught inside getFile).
getFile(r, path, ok) ==
    IF ok /\ path \in DOMAIN MainTree(r) THEN MainTree(r)[path] ELSE <<>>

\* loadQABoard(): the ledger is always read from the nexus repository.
loadQABoard(ok) == getFile(1, qaPath, ok)

\* The selection of answerQuestions.
IsOpenFor(q, team) == q.askedTo = team.name /\ q.status = StatusOpen

\* The selection of reviewAnswers.
IsAnsweredFor(q, team) ==
    /\ q.askedBy = team.name
    /\ q.status = StatusAnswered
    /\ q.answerBody # Undefined /\ q.answerBody # ""

\* updateQABoard(questionId, answer): reloads the ledger, applies the two
\* replacements and registers the result as the pending ledger edit.
updateQABoard(ag, questionId, answer, loadOk) ==
    LET content == UpdatedBoard(loadQABoard(loadOk), questionId, answer,
                                TEAMS[ag.team].displayName)
    IN  [ag EXCEPT !.fileChanges = MapSet(@, qaPath, content),
                   !.result.docsUpdated = Append(@, qaPath)]

\* No Answer phase has run.
NoneAnswered == [qs |-> <<>>, os |-> <<>>]

\* No external call has been planned or issued.
NoCalls == [plan |-> <<>>, at |-> 1, inflight |-> {}]

\* One run of handleScheduled only: the scheduled run executes and no other
\* run holds a frame.
NoneSuspended == [frame |-> IdleFrame, cur |-> "scheduled", started |-> {}]

\* One pass of the loop of answerQuestions.  o.query is the answer of the
\* service or "fail"; o.load tells whether updateQABoard's fetch succeeds.
AnswerOne(ag, q, o) ==
    IF o.query = "fail"
    THEN PushError(ag, "Failed to answer", q.id)
    ELSE LET a == updateQABoard(ag, q.id, o.query, o.load)
         IN  [a EXCEPT !.result.questionsAnswered = @ + 1,
                       !.result.costEstimate = @ + CostPerAnswer]

\* The loop with a failure that ends it: what a throw out of the loop's try
\* block would do.
RECURSIVE AnswerLoopStopOnError(_, _, _, _)
AnswerLoopStopOnError(ag, qs, os, i) ==
    IF i > Len(qs) THEN ag
    ELSE IF os[i].query = "fail" THEN AnswerOne(ag, qs[i], os[i])
    ELSE AnswerLoopStopOnError(AnswerOne(ag, qs[i], os[i]), qs, os, i + 1)

RECURSIVE AnswerLoop(_, _, _, _)
AnswerLoop(ag, qs, os, i) ==
    IF i > Len(qs) THEN ag
    ELSE AnswerLoop(AnswerOne(ag, qs[i], os[i]), qs, os, i + 1)

\* Section appended to a derived log: "## [id] - date" and the text, or
\* "## Updates Checked: date" and the text.
Section(id, text) == Line("section", id, text)

\* applyInsightsToDocumentation(questionId, insights)
applyInsightsToDocumentation(ag, questionId, insights, fileOk) ==
    LET existing == getFile(ag.team, insightsPath, fileOk)
    IN  [ag EXCEPT
           !.fileChanges = MapSet(@, insightsPath,
                                  Append(existing, Section(questionId, insights))),
           !.result.docsUpdated = Append(@, insightsPath)]

\* One pass of the loop of reviewAnswers.
ReviewOne(ag, q, o) ==
    IF o.query = "fail"
    THEN PushError(ag, "Failed to process answer", q.id)
    ELSE LET a == applyInsightsToDocumentation(ag, q.id, o.query, o.load)
         IN  [a EXCEPT !.result.answersReviewed = @ + 1,
                       !.result.costEstimate = @ + CostPerReview]

RECURSIVE ReviewLoop(_, _, _, _)
ReviewLoop(ag, qs, os, i) ==
    IF i > Len(qs) THEN ag
    ELSE ReviewLoop(ReviewOne(ag, qs[i], os[i]), qs, os, i + 1)

\* Outcomes of one pass of either loop.
ItemOutcomes ==
    { [query |-> a, load |-> l] : a \in AnswerTexts \cup {"fail"}, l \in BOOLEAN }

\* applyMCPUpdatesToDocumentation(updates)
applyMCPUpdatesToDocumentation(ag, updates, fileOk) ==
    LET existing == getFile(ag.team, mcpPath, fileOk)
    IN  [ag EXCEPT
           !.fileChanges = MapSet(@, mcpPath,
                                  Append(existing, Section("mcp", updates))),
           !.result.docsUpdated = Append(@, mcpPath)]

\* IsSubstantive as it would be with >= for >: a response of exactly 10
\* characters is processed.
IsSubstantiveFromTen(updates) ==
    updates # "" /\ TextLength(updates) >= MinMcpLength

\* if (updates && updates.length > 10)
IsSubstantive(updates) == updates # "" /\ TextLength(updates) > MinMcpLength

(***************************************************************************)
(* handleScheduled: the run                                                *)
(***************************************************************************)
\* mnemo.loadTeamDocs(TEAMS[0]) inside try/catch: the load succeeds (the
\* cache exists or is created) or throws, and the run goes on either way.
\* LoadTeamDocs as it would be without the try block around it: a failed
\* load ends the run.
LoadTeamDocsOrAbort ==
    /\ pc = "loadCache"
    /\ \/ UNCHANGED fails /\ pc' = "newAgent"
       \/ CanFail /\ fails' = fails + 1 /\ pc' = "threw"
    /\ cacheLoads' = cacheLoads + 1
    /\ tm' = 1
    /\ UNCHANGED <<agent, results, agents, issuesCreated, prUrl, totalCost,
                   alerts, ledgerDown, sel, ci, gh_issues, gh_prs>>
    /\ UNCHANGED <<commitVars, ledgerVars, passes, answered, calls, suspended>>

LoadTeamDocs ==
    /\ pc = "loadCache"
    /\ \/ UNCHANGED fails
       \/ CanFail /\ fails' = fails + 1
    /\ cacheLoads' = cacheLoads + 1
    /\ pc' = "newAgent"
    /\ tm' = 1
    /\ UNCHANGED <<agent, results, agents, issuesCreated, prUrl, totalCost,
                   alerts, ledgerDown, sel, ci, gh_issues, gh_prs>>
    /\ UNCHANGED <<commitVars, ledgerVars, passes, answered, calls, suspended>>

\* const agent = new TeamAgent(team, mnemo, github), and entry of execute()
NewTeamAgent ==
    /\ pc = "newAgent"
    /\ agent' = NewAgent(tm)
    /\ pc' = "answer"
    /\ UNCHANGED <<tm, results, agents, issuesCreated, prUrl, totalCost, alerts,
                   ledgerDown, sel, ci, cacheLoads, gh_issues, gh_prs, fails>>
    /\ UNCHANGED <<commitVars, ledgerVars, passes, answered, calls, suspended>>

\* answerQuestions(): load the ledger, select, and loop over the selection.
answerQuestions ==
    /\ pc = "answer"
    /\ \E ok \in BOOLEAN :
         /\ ok \/ CanFail
         /\ fails' = IF ok THEN fails ELSE fails + 1
         /\ ledgerDown' = IF ok THEN ledgerDown ELSE ledgerDown \cup {tm}
         /\ LET openQuestions ==
                  SelectSeq(parseQABoard(loadQABoard(ok)),
                            LAMBDA q : IsOpenFor(q, TEAMS[tm]))
            IN  \E os \in [1..Len(openQuestions) -> ItemOutcomes] :
                   /\ agent' = AnswerLoop(agent, openQuestions, os, 1)
                   /\ answered' = [qs |-> openQuestions, os |-> os]
    /\ pc' = "review"
    /\ UNCHANGED <<tm, results, agents, issuesCreated, prUrl, totalCost, alerts,
                   sel, ci, cacheLoads, gh_issues, gh_prs>>
    /\ UNCHANGED <<commitVars, ledgerVars, passes, calls, suspended>>

\* reviewAnswers(): load the ledger, select, and loop over the selection.
reviewAnswers ==
    /\ pc = "review"
    /\ \E ok \in BOOLEAN :
         /\ ok \/ CanFail
         /\ fails' = IF ok THEN fails ELSE fails + 1
         /\ ledgerDown' = IF ok THEN ledgerDown ELSE ledgerDown \cup {tm}
         /\ LET answeredQuestions ==
                  SelectSeq(parseQABoard(loadQABoard(ok)),
                            LAMBDA q : IsAnsweredFor(q, TEAMS[tm]))
            IN  \E os \in [1..Len(answeredQuestions) -> ItemOutcomes] :
                   agent' = ReviewLoop(agent, answeredQuestions, os, 1)
    /\ pc' = "mcp"
    /\ UNCHANGED <<tm, results, agents, issuesCreated, prUrl, totalCost, alerts,
                   sel, ci, cacheLoads, gh_issues, gh_prs>>
    /\ UNCHANGED <<commitVars, ledgerVars, passes, answered, calls, suspended>>

\* checkMCPUpdates as it would be if a failed query ended the pipeline: the
\* error is recorded and the remaining phases are skipped.
checkMCPUpdatesOrAbort ==
    /\ pc = "mcp"
    /\ \/ /\ CanFail
          /\ fails' = fails + 1
          /\ agent' = PushError(agent, "Failed to check MCP updates", "")
          /\ pc' = "finish"
       \/ /\ UNCHANGED <<fails, agent>>
          /\ pc' = "plan"
    /\ UNCHANGED <<tm, results, agents, issuesCreated, prUrl, totalCost, alerts,
                   ledgerDown, sel, ci, cacheLoads, gh_issues, gh_prs>>
    /\ UNCHANGED <<commitVars, ledgerVars, passes, answered, calls, suspended>>

\* checkMCPUpdates(): one query; a substantive response is appended to the
\* update digest.
checkMCPUpdates ==
    /\ pc = "mcp"
    /\ \/ /\ CanFail
          /\ fails' = fails + 1
          /\ agent' = PushError(agent, "Failed to check MCP updates", "")
       \/ \E updates \in McpResponses, fileOk \in BOOLEAN :
            /\ fileOk \/ (CanFail /\ IsSubstantive(updates))
            /\ fails' = IF fileOk THEN fails ELSE fails + 1
            /\ agent' =
                 IF IsSubstantive(updates)
                 THEN LET a == applyMCPUpdatesToDocumentation(agent, updates, fileOk)
                      IN  [a EXCEPT !.result.mcpUpdatesProcessed = @ + 1,
                                    !.result.costEstimate = @ + CostPerMcpUpdate]
                 ELSE agent
    /\ pc' = "plan"
    /\ UNCHANGED <<tm, results, agents, issuesCreated, prUrl, totalCost, alerts,
                   ledgerDown, sel, ci, cacheLoads, gh_issues, gh_prs>>
    /\ UNCHANGED <<commitVars, ledgerVars, passes, answered, calls, suspended>>

\* updateActionPlan(): one query; the plan is reported as updated, its text
\* is not stored.
updateActionPlan ==
    /\ pc = "plan"
    /\ \/ /\ CanFail
          /\ fails' = fails + 1
          /\ agent' = PushError(agent, "Failed to update action plan", "")
       \/ /\ UNCHANGED fails
          /\ agent' = [agent EXCEPT
                         !.result.actionPlanUpdated = TRUE,
                         !.result.docsUpdated = Append(@, actionPlanPath),
                         !.result.costEstimate = @ + CostPerActionPlan]
    /\ pc' = "readme"
    /\ UNCHANGED <<tm, results, agents, issuesCreated, prUrl, totalCost, alerts,
                   ledgerDown, sel, ci, cacheLoads, gh_issues, gh_prs>>
    /\ UNCHANGED <<commitVars, ledgerVars, passes, answered, calls, suspended>>

\* updateReadme(): one query; the README is flagged unless the response
\* says that no updates are needed.
updateReadme ==
    /\ pc = "readme"
    /\ \/ /\ CanFail
          /\ fails' = fails + 1
          /\ agent' = PushError(agent, "Failed to review README", "")
       \/ /\ UNCHANGED fails
          /\ \E review \in ReadmeResponses :
               agent' =
                 LET a == IF ~SaysNoUpdatesNeeded(review)
                          THEN [agent EXCEPT
                                  !.result.readmeUpdated = TRUE,
                                  !.result.docsUpdated = Append(@, readmePath)]
                          ELSE agent
                 IN  [a EXCEPT !.result.costEstimate = @ + CostPerReadme]
    /\ pc' = "finish"
    /\ UNCHANGED <<tm, results, agents, issuesCreated, prUrl, totalCost, alerts,
                   ledgerDown, sel, ci, cacheLoads, gh_issues, gh_prs>>
    /\ UNCHANGED <<commitVars, ledgerVars, passes, answered, calls, suspended>>

\* End of execute(): every phase has returned, so success is set and the
\* result returned.  (The catch of execute has no transition: each phase
\* contains its own failures, and getFile returns '' on a failed fetch.)
\* execute as it would be if recorded errors made the result unsuccessful.
executeFailingOnErrors ==
    /\ pc = "finish"
    /\ agent' = [agent EXCEPT !.result.success = (agent.result.errors = <<>>)]
    /\ pc' = "push"
    /\ UNCHANGED <<tm, results, agents, issuesCreated, prUrl, totalCost, alerts,
                   ledgerDown, sel, ci, cacheLoads, gh_issues, gh_prs, fails>>
    /\ UNCHANGED <<commitVars, ledgerVars, passes, answered, calls, suspended>>

execute ==
    /\ pc = "finish"
    /\ agent' = [agent EXCEPT !.result.success = TRUE]
    /\ pc' = "push"
    /\ UNCHANGED <<tm, results, agents, issuesCreated, prUrl, totalCost, alerts,
                   ledgerDown, sel, ci, cacheLoads, gh_issues, gh_prs, fails>>
    /\ UNCHANGED <<commitVars, ledgerVars, passes, answered, calls, suspended>>

\* createFailureIssue(github, team, result): the url of the issue, or the
\* text 'Failed to create issue' when the request fails.
createFailureIssue(team, ok) ==
    IF ok THEN [url |-> "issue", team |-> team]
    ELSE [url |-> "Failed to create issue", team |-> ""]

\* PushResult as it would be if the edits of each team were committed as
\* soon as its pipeline has ended: createPullRequest follows every team.
PushResultThenCommit ==
    /\ pc = "push"
    /\ results' = Append(results, agent.result)
    /\ agents' = Append(agents, [team |-> agent.team,
                                 fileChanges |-> agent.fileChanges])
    /\ pc' = "pr"
    /\ UNCHANGED <<tm, agent, prUrl, totalCost, alerts, ledgerDown, sel, ci,
                   cacheLoads, gh_prs, fails, issuesCreated, gh_issues>>
    /\ UNCHANGED <<commitVars, ledgerVars, passes, answered, calls, suspended>>

\* PushResult as it would be if a result that recorded errors were dropped.
PushResultUnlessErrors ==
    /\ pc = "push"
    /\ results' = IF agent.result.errors = <<>>
                  THEN Append(results, agent.result) ELSE results
    /\ agents' = Append(agents, [team |-> agent.team,
                                 fileChanges |-> agent.fileChanges])
    /\ IF tm < Len(TEAMS)
       THEN tm' = tm + 1 /\ pc' = "newAgent"
       ELSE tm' = tm /\ pc' = "pr"
    /\ UNCHANGED <<agent, prUrl, totalCost, alerts, ledgerDown, sel, ci,
                   cacheLoads, gh_prs, fails, issuesCreated, gh_issues>>
    /\ UNCHANGED <<commitVars, ledgerVars, passes, answered, calls, suspended>>

\* results.push(result); agents.push(agent); an issue for a failed result;
\* then the next team.  (In a run the catch of the team loop is not
\* entered, nothing in its try block throws; CatchFatal is that branch.)
PushResult ==
    /\ pc = "push"
    /\ results' = Append(results, agent.result)
    /\ agents' = Append(agents, [team |-> agent.team,
                                 fileChanges |-> agent.fileChanges])
    /\ IF ~agent.result.success /\ Len(agent.result.errors) > 0
       THEN \E ok \in BOOLEAN :
              /\ ok \/ CanFail
              /\ fails' = IF ok THEN fails ELSE fails + 1
              /\ issuesCreated' =
                   Append(issuesCreated,
                          createFailureIssue(agent.result.team, ok))
              /\ gh_issues' = IF ok THEN Append(gh_issues, agent.result.team)
                              ELSE gh_issues
       ELSE UNCHANGED <<fails, issuesCreated, gh_issues>>
    /\ IF tm < Len(TEAMS)
       THEN tm' = tm + 1 /\ pc' = "newAgent"
       ELSE tm' = tm /\ pc' = "pr"
    /\ UNCHANGED <<agent, prUrl, totalCost, alerts, ledgerDown, sel, ci,
                   cacheLoads, gh_prs>>
    /\ UNCHANGED <<commitVars, ledgerVars, passes, answered, calls, suspended>>

\* Index of the team a result names: TEAMS.find((t) => t.name === result.team)
TeamOf(name) == CHOOSE i \in TeamIdx : TEAMS[i].name = name

\* agents.find((a) => a['team'].name === result.team)
AgentOf(name) ==
    agents[CHOOSE i \in 1..Len(agents) : TEAMS[agents[i].team].name = name]

\* SuccessfulTeams as it would be with one entry per updated path: every
\* successful result is listed once for each path of its docsUpdated.
RECURSIVE SuccessfulTeamsPerPath(_)
SuccessfulTeamsPerPath(rs) ==
    IF rs = <<>> THEN <<>>
    ELSE (IF Head(rs).success
          THEN [ i \in 1..Len(Head(rs).docsUpdated) |-> Head(rs) ]
          ELSE <<>>) \o SuccessfulTeamsPerPath(Tail(rs))

\* The selection as it would be without the filter.
SuccessfulTeamsUnfiltered(rs) == rs

\* results.filter((r) => r.success && r.docsUpdated.length > 0)
SuccessfulTeams(rs) ==
    SelectSeq(rs, LAMBDA r : r.success /\ Len(r.docsUpdated) > 0)

\* After the pass of the commit loop for sel[ci]: the next pass, or the
\* request for the pull request.
AfterPass == IF ci < Len(sel) THEN "branchExists" ELSE "createPR"

\* Entry of createPullRequest: nothing to commit returns undefined.
createPullRequest ==
    /\ pc = "pr"
    /\ sel' = SuccessfulTeams(results)
    /\ ci' = 1
    /\ pc' = IF SuccessfulTeams(results) = <<>> THEN "cost" ELSE "branchExists"
    /\ prUrl' = Undefined
    /\ UNCHANGED <<tm, agent, results, agents, issuesCreated, totalCost, alerts,
                   ledgerDown, cacheLoads, gh_issues, gh_prs, fails>>
    /\ UNCHANGED <<commitVars, ledgerVars, passes, answered, calls, suspended>>

\* What the commit loop did in one pass: the repository, whether its working
\* branch existed when the pass began, what branchExists answered, and how
\* createBranch and createCommit ended ("none" when not called).
NewPass(r, existed, found) ==
    [ repo |-> r, existed |-> existed, found |-> found,
      createBranch |-> "none", createCommit |-> "none" ]

\* The log with a field of its latest pass set.
NotePass(log, field, value) ==
    [log EXCEPT ![Len(log)] = [@ EXCEPT ![field] = value]]

\* github.branchExists: true when the ref is fetched, false on any failure.
branchExists ==
    /\ pc = "branchExists"
    /\ LET r == TeamOf(sel[ci].team)
       IN  \E ok \in BOOLEAN :
             /\ ok \/ CanFail
             /\ fails' = IF ok THEN fails ELSE fails + 1
             /\ IF ok /\ gh_ref[r] # 0
                THEN pc' = "commit"
                ELSE pc' = "createBranch"
             /\ passes' = Append(passes, NewPass(r, gh_ref[r] # 0, ok /\ gh_ref[r] # 0))
    /\ UNCHANGED <<tm, agent, results, agents, issuesCreated, prUrl, totalCost,
                   alerts, ledgerDown, sel, ci, cacheLoads, gh_issues, gh_prs>>
    /\ UNCHANGED <<commitVars, ledgerVars, answered, calls, suspended>>

\* github.createBranch: GET the ref of main, POST the new ref.  The POST is
\* refused when the branch exists.  A throw ends this pass of the loop.
createBranch ==
    /\ pc = "createBranch"
    /\ LET r == TeamOf(sel[ci].team)
       IN  \E ok \in BOOLEAN :
             /\ ok \/ CanFail
             /\ IF ok /\ gh_ref[r] = 0
                THEN /\ gh_ref' = [gh_ref EXCEPT ![r] = r]
                     /\ pc' = "commit"
                     /\ ci' = ci
                     /\ passes' = NotePass(passes, "createBranch", "returned")
                     /\ UNCHANGED fails
                ELSE /\ fails' = IF ok THEN fails ELSE fails + 1
                     /\ UNCHANGED gh_ref
                     /\ pc' = AfterPass
                     /\ ci' = IF ci < Len(sel) THEN ci + 1 ELSE ci
                     /\ passes' = NotePass(passes, "createBranch", "thrown")
    /\ UNCHANGED <<tm, agent, results, agents, issuesCreated, prUrl, totalCost,
                   alerts, ledgerDown, sel, cacheLoads, gh_issues, gh_prs>>
    /\ UNCHANGED <<gh_commits, cc, cc_calls, ledgerVars, answered, calls, suspended>>

\* const files = agent.getFileChanges(); entry of github.createCommit
CommitTeam ==
    /\ pc = "commit"
    /\ cc' = EnterCreateCommit(TeamOf(sel[ci].team),
                               getFileChanges(AgentOf(sel[ci].team)))
    /\ cc_calls' = cc_calls + 1
    /\ pc' = "createCommit"
    /\ passes' = NotePass(passes, "createCommit", "called")
    /\ UNCHANGED <<tm, agent, results, agents, issuesCreated, prUrl, totalCost,
                   alerts, ledgerDown, sel, ci, cacheLoads, gh_issues, gh_prs, fails>>
    /\ UNCHANGED <<hostVars, ledgerVars, answered, calls, suspended>>

\* CommitPassDone as it would be with a retry: after a throw createCommit
\* is called again for the same team.
CommitPassRetry ==
    /\ pc = "createCommit"
    /\ cc.pc \in {"returned", "thrown"}
    /\ pc' = IF cc.pc = "thrown" THEN "commit" ELSE AfterPass
    /\ ci' = IF cc.pc = "returned" /\ ci < Len(sel) THEN ci + 1 ELSE ci
    /\ passes' = NotePass(passes, "createCommit", cc.pc)
    /\ UNCHANGED <<tm, agent, results, agents, issuesCreated, prUrl, totalCost,
                   alerts, ledgerDown, sel, cacheLoads, gh_issues, gh_prs, fails>>
    /\ UNCHANGED <<commitVars, ledgerVars, answered, calls, suspended>>

\* createCommit has returned or thrown (the throw is caught and logged).
CommitPassDone ==
    /\ pc = "createCommit"
    /\ cc.pc \in {"returned", "thrown"}
    /\ pc' = AfterPass
    /\ ci' = IF ci < Len(sel) THEN ci + 1 ELSE ci
    /\ passes' = NotePass(passes, "createCommit", cc.pc)
    /\ UNCHANGED <<tm, agent, results, agents, issuesCreated, prUrl, totalCost,
                   alerts, ledgerDown, sel, cacheLoads, gh_issues, gh_prs, fails>>
    /\ UNCHANGED <<commitVars, ledgerVars, answered, calls, suspended>>

\* createPR as it would be on the repository of the last successful team.
createPROnLastTeam ==
    /\ pc = "createPR"
    /\ LET r == TeamOf(sel[Len(sel)].team)
       IN  \E ok \in BOOLEAN :
             /\ ok \/ CanFail
             /\ IF ok /\ gh_ref[r] # 0 /\ gh_ref[r] # r
                THEN /\ gh_prs' = Append(gh_prs, r)
                     /\ prUrl' = "pr"
                     /\ UNCHANGED fails
                ELSE /\ fails' = IF ok THEN fails ELSE fails + 1
                     /\ prUrl' = Undefined
                     /\ UNCHANGED gh_prs
    /\ pc' = "cost"
    /\ UNCHANGED <<tm, agent, results, agents, issuesCreated, totalCost, alerts,
                   ledgerDown, sel, ci, cacheLoads, gh_issues>>
    /\ UNCHANGED <<commitVars, ledgerVars, passes, answered, calls, suspended>>

\* github.createPR on the repository of the first successful team; the host
\* refuses a pull request whose head branch is missing or holds no commit
\* beyond main.
createPR ==
    /\ pc = "createPR"
    /\ LET r == TeamOf(sel[1].team)
       IN  \E ok \in BOOLEAN :
             /\ ok \/ CanFail
             /\ IF ok /\ gh_ref[r] # 0 /\ gh_ref[r] # r
                THEN /\ gh_prs' = Append(gh_prs, r)
                     /\ prUrl' = "pr"
                     /\ UNCHANGED fails
                ELSE /\ fails' = IF ok THEN fails ELSE fails + 1
                     /\ prUrl' = Undefined
                     /\ UNCHANGED gh_prs
    /\ pc' = "cost"
    /\ UNCHANGED <<tm, agent, results, agents, issuesCreated, totalCost, alerts,
                   ledgerDown, sel, ci, cacheLoads, gh_issues>>
    /\ UNCHANGED <<commitVars, ledgerVars, passes, answered, calls, suspended>>

\* results.reduce((sum, r) => sum + r.costEstimate, 0)
RECURSIVE SumCost(_)
SumCost(rs) ==
    IF rs = <<>> THEN 0 ELSE Head(rs).costEstimate + SumCost(Tail(rs))

\* ExceedsThreshold as it would be with >= for >.
ReachesThreshold(total) == total >= CostThreshold

\* if (totalCost > 50) await sendCostAlert(env, totalCost)
ExceedsThreshold(total) == total > CostThreshold

\* The cost check of handleScheduled; sendCostAlert swallows a failed post.
\* CheckCost as it would be if a failed delivery of the alert were not
\* caught: the run ends with the exception.
CheckCostAlertThrows ==
    /\ pc = "cost"
    /\ totalCost' = SumCost(results)
    /\ IF ExceedsThreshold(SumCost(results))
       THEN /\ alerts' = alerts + 1
            /\ \/ UNCHANGED fails /\ pc' = "stats"
               \/ CanFail /\ fails' = fails + 1 /\ pc' = "threw"
       ELSE UNCHANGED <<alerts, fails>> /\ pc' = "stats"
    /\ UNCHANGED <<tm, agent, results, agents, issuesCreated, prUrl, ledgerDown,
                   sel, ci, cacheLoads, gh_issues, gh_prs>>
    /\ UNCHANGED <<commitVars, ledgerVars, passes, answered, calls, suspended>>

\* The cost check; sendCostAlert posts to the webhook inside a try block
\* whose catch logs the failure.
CheckCost ==
    /\ pc = "cost"
    /\ totalCost' = SumCost(results)
    /\ IF ExceedsThreshold(SumCost(results))
       THEN /\ alerts' = alerts + 1
            /\ \/ UNCHANGED fails
               \/ CanFail /\ fails' = fails + 1
       ELSE UNCHANGED <<alerts, fails>>
    /\ pc' = "stats"
    /\ UNCHANGED <<tm, agent, results, agents, issuesCreated, prUrl, ledgerDown,
                   sel, ci, cacheLoads, gh_issues, gh_prs>>
    /\ UNCHANGED <<commitVars, ledgerVars, passes, answered, calls, suspended>>

\* mnemo.getStats() is awaited outside any try: a rejected fetch ends the
\* run with an exception; a response that is not ok yields zeros.
getStats ==
    /\ pc = "stats"
    /\ \/ pc' = "done" /\ UNCHANGED fails
       \/ CanFail /\ pc' = "threw" /\ fails' = fails + 1
    /\ UNCHANGED <<tm, agent, results, agents, issuesCreated, prUrl, totalCost,
                   alerts, ledgerDown, sel, ci, cacheLoads, gh_issues, gh_prs>>
    /\ UNCHANGED <<commitVars, ledgerVars, passes, answered, calls, suspended>>

\* handleScheduled before its first step, with nothing on the host beyond
\* the repositories.
RunIdle ==
    /\ pc = "idle"
    /\ tm = 0
    /\ agent = NewAgent(1)
    /\ results = <<>>
    /\ agents = <<>>
    /\ issuesCreated = <<>>
    /\ prUrl = Undefined
    /\ totalCost = 0
    /\ alerts = 0
    /\ sel = <<>>
    /\ ci = 0
    /\ cacheLoads = 0
    /\ gh_issues = <<>>
    /\ gh_prs = <<>>
    /\ ledgerDown = {}
    /\ passes = <<>>
    /\ answered = NoneAnswered
    /\ calls = NoCalls
    /\ suspended = NoneSuspended

(***************************************************************************)
(* Specification of createCommit on its own: successive calls on one       *)
(* repository whose branch exists, each with any list of files             *)
(***************************************************************************)
DocA == <<Line("text", "a", "")>>
DocB == <<Line("text", "b", "")>>

CommitPaths == <<insightsPath, mcpPath>>

\* The lists of files over CommitPaths, in the order of CommitPaths.
RECURSIVE FileLists(_)
FileLists(n) ==
    IF n = 0 THEN {<<>>}
    ELSE LET rest == FileLists(n - 1)
         IN  rest \cup { Append(fl, [path |-> CommitPaths[n], content |-> c]) :
                           fl \in rest, c \in {DocA, DocB} }

\* The trees the branch can start from.
BaseTrees ==
    UNION { [S -> {DocA}] : S \in SUBSET { CommitPaths[n] : n \in 1..Len(CommitPaths) } }

CommitInit ==
    /\ \E t \in BaseTrees :
         gh_commits = <<[tree |-> t, parents |-> <<>>]>>
    /\ gh_ref = [r \in TeamIdx |-> IF r = 1 THEN 1 ELSE 0]
    /\ cc = IdleFrame
    /\ cc_calls = 0
    /\ fails = 0
    /\ lg_out = <<>>
    /\ lg_in = <<>>
    /\ lg_op = "none"
    /\ lg_id = ""
    /\ lg_ans = ""
    /\ lg_n = 0
    /\ lg_first = FALSE
    /\ lg_ops = 0
    /\ lg_parsed = <<>>
    /\ RunIdle

CommitCall ==
    /\ cc.pc \in {"idle", "returned", "thrown"}
    /\ cc_calls < MaxCommitCalls
    /\ \E files \in FileLists(Len(CommitPaths)) :
         cc' = EnterCreateCommit(1, files)
    /\ cc_calls' = cc_calls + 1
    /\ UNCHANGED <<hostVars, fails, ledgerVars, runVars>>

CommitNext == CommitCall \/ createCommit

SpecCommit == CommitInit /\ [][CommitNext]_vars

(***************************************************************************)
(* Specification of the ledger operations on their own                     *)
(***************************************************************************)
LedgerInit ==
    /\ lg_out \in AllBoards
    /\ lg_in = lg_out
    /\ lg_op = "none"
    /\ lg_id = ""
    /\ lg_ans = ""
    /\ lg_n = 0
    /\ lg_first = FALSE
    /\ lg_ops = 0
    /\ lg_parsed = <<>>
    /\ gh_ref = [r \in TeamIdx |-> 0]
    /\ gh_commits = <<>>
    /\ cc = IdleFrame
    /\ cc_calls = 0
    /\ fails = 0
    /\ RunIdle

LedgerUpdate ==
    /\ lg_ops < MaxLedgerOps
    /\ \E id \in QuestionIds, ans \in AnswerTexts :
         LET out == UpdatedBoard(lg_out, id, ans, TEAMS[2].displayName)
             again == lg_op = "update" /\ lg_id = id
         IN  /\ lg_in' = lg_out
             /\ lg_out' = out
             /\ lg_op' = "update"
             /\ lg_id' = id
             /\ lg_ans' = ans
             /\ lg_n' = IF again THEN lg_n + 1 ELSE 1
             /\ lg_first' = IF again THEN lg_first ELSE out # lg_out
    /\ lg_ops' = lg_ops + 1
    /\ lg_parsed' = <<>>
    /\ UNCHANGED <<commitVars, fails, runVars>>

LedgerParse ==
    /\ lg_ops < MaxLedgerOps
    /\ lg_op # "parse"
    /\ lg_in' = lg_out
    /\ lg_out' = lg_out
    /\ lg_op' = "parse"
    /\ lg_parsed' = parseQABoard(lg_out)
    /\ lg_ops' = lg_ops + 1
    /\ UNCHANGED <<lg_id, lg_ans, lg_n, lg_first>>
    /\ UNCHANGED <<commitVars, fails, runVars>>

LedgerNext == LedgerUpdate \/ LedgerParse

SpecLedger == LedgerInit /\ [][LedgerNext]_vars

(***************************************************************************)
(* Specification of a run of handleScheduled                               *)
(***************************************************************************)
\* The ledger of the scenario: one entry Q-001 from nexus to de, Open, with
\* the waiting placeholder as its answer.
ScenarioBoard ==
    Preamble \o << HdrLine("001", ""), FromLine("Nexus", "DE"),
                   StatusLine(StatusOpen), QuestionLine,
                   AnswerLine("_Waiting for DE response_"), BlankLine >>

\* A ledger with one entry from nexus to de that de has answered.
AnsweredBoard ==
    Preamble \o << HdrLine("001", ""), FromLine("Nexus", "DE"),
                   StatusLine(StatusAnswered), QuestionLine,
                   AnswerLine("X"), BlankLine >>

RunBoards == {ScenarioBoard, AnsweredBoard}

\* A ledger with two entries addressed to de, both Open with the waiting
\* placeholder.
TwoOpenBoard ==
    Preamble \o Block(1, "ok", StatusOpen, "_Waiting for DE response_")
             \o Block(2, "ok", StatusOpen, "_Waiting for DE response_")

\* The ledgers the loop of the Answer phase is exercised on.
AnswerBoards == {ScenarioBoard, TwoOpenBoard}

\* The tree of main of repository r: nexus holds the ledger, and the
\* repositories of nexus and de hold an update digest already.
InitialTree(r, board) ==
    LET paths == (IF r = 1 THEN {qaPath} ELSE {})
                   \cup (IF r < 3 THEN {mcpPath} ELSE {})
    IN  [ p \in paths |-> IF p = qaPath THEN board ELSE DocA ]

\* The hosts a run starts on: the scenario ledger with the working branch
\* of the day in no repository (the first run of a day), or the answered
\* ledger with the branch already in nexus (a second run on the same day).
InitialHosts ==
    { [board |-> ScenarioBoard, existing |-> {}],
      [board |-> AnsweredBoard, existing |-> {1}] }

Init ==
    /\ \E h \in InitialHosts :
         /\ gh_commits = [ r \in TeamIdx |->
                             [tree |-> InitialTree(r, h.board), parents |-> <<>>] ]
         /\ gh_ref = [ r \in TeamIdx |-> IF r \in h.existing THEN r ELSE 0 ]
    /\ cc = IdleFrame
    /\ cc_calls = 0
    /\ fails = 0
    /\ lg_out = <<>>
    /\ lg_in = <<>>
    /\ lg_op = "none"
    /\ lg_id = ""
    /\ lg_ans = ""
    /\ lg_n = 0
    /\ lg_first = FALSE
    /\ lg_ops = 0
    /\ lg_parsed = <<>>
    /\ pc = "loadCache"
    /\ tm = 0
    /\ agent = NewAgent(1)
    /\ results = <<>>
    /\ agents = <<>>
    /\ issuesCreated = <<>>
    /\ prUrl = Undefined
    /\ totalCost = 0
    /\ alerts = 0
    /\ sel = <<>>
    /\ ci = 0
    /\ cacheLoads = 0
    /\ gh_issues = <<>>
    /\ gh_prs = <<>>
    /\ ledgerDown = {}
    /\ passes = <<>>
    /\ answered = NoneAnswered
    /\ calls = NoCalls
    /\ suspended = NoneSuspended

\* createCommit as called by createPullRequest.
RunCreateCommit == pc = "createCommit" /\ createCommit

Next ==
    \/ LoadTeamDocs
    \/ NewTeamAgent
    \/ answerQuestions
    \/ reviewAnswers
    \/ checkMCPUpdates
    \/ updateActionPlan
    \/ updateReadme
    \/ execute
    \/ PushResult
    \/ createPullRequest
    \/ branchExists
    \/ createBranch
    \/ CommitTeam
    \/ RunCreateCommit
    \/ CommitPassDone
    \/ createPR
    \/ CheckCost
    \/ getStats

Spec == Init /\ [][Next]_vars

(***************************************************************************)
(* Specification of the cost check on its own: handleScheduled from the    *)
(* end of createPullRequest on, with any cost estimates in the results     *)
(***************************************************************************)
\* Cost estimates in cents; their sums reach the threshold, one cent more
\* and one cent less.
CostChoices == {0, 8, 2499, 2500, 2501}

CostInit ==
    /\ \E c \in [TeamIdx -> CostChoices] :
         results = [ i \in TeamIdx |->
                       [NewResult(TEAMS[i]) EXCEPT !.success = TRUE,
                                                   !.costEstimate = c[i]] ]
    /\ pc = "cost"
    /\ tm = Len(TEAMS)
    /\ agent = NewAgent(Len(TEAMS))
    /\ agents = [ i \in TeamIdx |-> [team |-> i, fileChanges |-> <<>>] ]
    /\ issuesCreated = <<>>
    /\ prUrl = Undefined
    /\ totalCost = 0
    /\ alerts = 0
    /\ sel = <<>>
    /\ ci = 1
    /\ cacheLoads = 1
    /\ gh_issues = <<>>
    /\ gh_prs = <<>>
    /\ ledgerDown = {}
    /\ passes = <<>>
    /\ answered = NoneAnswered
    /\ calls = NoCalls
    /\ suspended = NoneSuspended
    /\ gh_commits = [ r \in TeamIdx |->
                        [tree |-> InitialTree(r, ScenarioBoard), parents |-> <<>>] ]
    /\ gh_ref = [ r \in TeamIdx |-> 0 ]
    /\ cc = IdleFrame
    /\ cc_calls = 0
    /\ fails = 0
    /\ lg_out = <<>>
    /\ lg_in = <<>>
    /\ lg_op = "none"
    /\ lg_id = ""
    /\ lg_ans = ""
    /\ lg_n = 0
    /\ lg_first = FALSE
    /\ lg_ops = 0
    /\ lg_parsed = <<>>

CostNext == CheckCost \/ getStats

SpecCost == CostInit /\ [][CostNext]_vars

(***************************************************************************)
(* Specification of the loop of the Answer phase over a given selection    *)
(*                                                                         *)
(* In a run the selection of answerQuestions is empty (the parser keeps    *)
(* the glyph of a status and the filter compares with glyph and word), so  *)
(* the loop is exercised here on selections given from outside: the team   *)
(* de, with up to MaxSelected questions addressed to it.                   *)
(***************************************************************************)
MaxSelected == 2

\* A question as the filter of answerQuestions would let it through.
SelectedQuestion(id) ==
    [ id |-> id, askedBy |-> "nexus", askedTo |-> "de", status |-> StatusOpen,
      hasBody |-> TRUE, answerBody |-> "_Waiting for DE response_" ]

Selections ==
    UNION { [1..n -> { SelectedQuestion(id) : id \in QuestionIds }] :
              n \in 0..MaxSelected }

AnswerInit ==
    /\ \E qs \in Selections : answered = [qs |-> qs, os |-> <<>>]
    /\ calls = NoCalls
    /\ suspended = NoneSuspended
    /\ pc = "answerLoop"
    /\ tm = 2
    /\ agent = NewAgent(2)
    /\ results = <<>>
    /\ agents = <<>>
    /\ issuesCreated = <<>>
    /\ prUrl = Undefined
    /\ totalCost = 0
    /\ alerts = 0
    /\ sel = <<>>
    /\ ci = 0
    /\ cacheLoads = 1
    /\ gh_issues = <<>>
    /\ gh_prs = <<>>
    /\ ledgerDown = {}
    /\ passes = <<>>
    /\ \E board \in AnswerBoards :
         gh_commits = [ r \in TeamIdx |->
                          [tree |-> InitialTree(r, board), parents |-> <<>>] ]
    /\ gh_ref = [ r \in TeamIdx |-> 0 ]
    /\ cc = IdleFrame
    /\ cc_calls = 0
    /\ fails = 0
    /\ lg_out = <<>>
    /\ lg_in = <<>>
    /\ lg_op = "none"
    /\ lg_id = ""
    /\ lg_ans = ""
    /\ lg_n = 0
    /\ lg_first = FALSE
    /\ lg_ops = 0
    /\ lg_parsed = <<>>

\* for (const question of openQuestions) { try { ... } catch { ... } }
AnswerSelected ==
    /\ pc = "answerLoop"
    /\ \E os \in [1..Len(answered.qs) -> ItemOutcomes] :
         /\ agent' = AnswerLoop(agent, answered.qs, os, 1)
         /\ answered' = [answered EXCEPT !.os = os]
    /\ pc' = "review"
    /\ UNCHANGED <<tm, results, agents, issuesCreated, prUrl, totalCost, alerts,
                   sel, ci, cacheLoads, gh_issues, gh_prs, ledgerDown>>
    /\ UNCHANGED <<commitVars, fails, ledgerVars, passes, calls, suspended>>

AnswerNext == AnswerSelected

SpecAnswer == AnswerInit /\ [][AnswerNext]_vars

(***************************************************************************)
(* Specification of the loop of the Review phase over a given selection    *)
(*                                                                         *)
(* As for the Answer phase, the selection of reviewAnswers is empty in a   *)
(* run, so its loop is exercised on selections given from outside: the     *)
(* team nexus, with up to MaxSelected answered questions it asked, and a   *)
(* repository that holds an insights log already or not.                   *)
(***************************************************************************)
\* A question as the filter of reviewAnswers would let it through.
ReviewedQuestion(id) ==
    [ id |-> id, askedBy |-> "nexus", askedTo |-> "de",
      status |-> StatusAnswered, hasBody |-> TRUE, answerBody |-> "X" ]

ReviewSelections ==
    UNION { [1..n -> { ReviewedQuestion(id) : id \in QuestionIds }] :
              n \in 0..MaxSelected }

\* The tree of main of nexus, with an insights log or without.
ReviewTree(r, hasLog) ==
    LET paths == DOMAIN InitialTree(r, AnsweredBoard)
                   \cup (IF r = 1 /\ hasLog THEN {insightsPath} ELSE {})
    IN  [ p \in paths |-> IF p = insightsPath THEN DocB
                          ELSE InitialTree(r, AnsweredBoard)[p] ]

ReviewInit ==
    /\ \E qs \in ReviewSelections : answered = [qs |-> qs, os |-> <<>>]
    /\ \E hasLog \in BOOLEAN :
          gh_commits = [ r \in TeamIdx |->
                           [tree |-> ReviewTree(r, hasLog), parents |-> <<>>] ]
    /\ calls = NoCalls
    /\ suspended = NoneSuspended
    /\ pc = "reviewLoop"
    /\ tm = 1
    /\ agent = NewAgent(1)
    /\ results = <<>>
    /\ agents = <<>>
    /\ issuesCreated = <<>>
    /\ prUrl = Undefined
    /\ totalCost = 0
    /\ alerts = 0
    /\ sel = <<>>
    /\ ci = 0
    /\ cacheLoads = 1
    /\ gh_issues = <<>>
    /\ gh_prs = <<>>
    /\ ledgerDown = {}
    /\ passes = <<>>
    /\ gh_ref = [ r \in TeamIdx |-> 0 ]
    /\ cc = IdleFrame
    /\ cc_calls = 0
    /\ fails = 0
    /\ lg_out = <<>>
    /\ lg_in = <<>>
    /\ lg_op = "none"
    /\ lg_id = ""
    /\ lg_ans = ""
    /\ lg_n = 0
    /\ lg_first = FALSE
    /\ lg_ops = 0
    /\ lg_parsed = <<>>

\* for (const question of answeredQuestions) { try { ... } catch { ... } }
ReviewSelected ==
    /\ pc = "reviewLoop"
    /\ \E os \in [1..Len(answered.qs) -> ItemOutcomes] :
         /\ agent' = ReviewLoop(agent, answered.qs, os, 1)
         /\ answered' = [answered EXCEPT !.os = os]
    /\ pc' = "mcp"
    /\ UNCHANGED <<tm, results, agents, issuesCreated, prUrl, totalCost, alerts,
                   sel, ci, cacheLoads, gh_issues, gh_prs, ledgerDown>>
    /\ UNCHANGED <<commitVars, fails, ledgerVars, passes, calls, suspended>>

\* The Review loop, then the Check-updates phase of the same team.
ReviewNext == ReviewSelected \/ checkMCPUpdates

SpecReview == ReviewInit /\ [][ReviewNext]_vars

(***************************************************************************)
(* Specification of the team loop of handleScheduled over given outcomes   *)
(* of its try block                                                        *)
(*                                                                         *)
(* In a run execute() always returns a result with success = true and no   *)
(* statement of the try block throws, so the branch for a failed result    *)
(* and the catch of the loop are exercised here on outcomes given from     *)
(* outside: execute() returns a successful result (with or without         *)
(* recorded errors), returns a failed result with the error its own catch  *)
(* recorded, or an exception leaves the try block.                         *)
(***************************************************************************)
FatalError == [what |-> "fatal", id |-> ""]

\* What execute() hands back for team i when it returns.
ExecuteResults(i) ==
    { [NewResult(TEAMS[i]) EXCEPT !.success = TRUE],
      [NewResult(TEAMS[i]) EXCEPT !.success = TRUE,
                                  !.errors = <<[what |-> "Failed to update action plan",
                                                id |-> ""]>>],
      [NewResult(TEAMS[i]) EXCEPT !.errors = <<FatalError>>] }

TeamLoopInit ==
    /\ pc = "newAgent"
    /\ tm = 1
    /\ agent = NewAgent(1)
    /\ results = <<>>
    /\ agents = <<>>
    /\ issuesCreated = <<>>
    /\ prUrl = Undefined
    /\ totalCost = 0
    /\ alerts = 0
    /\ sel = <<>>
    /\ ci = 0
    /\ cacheLoads = 1
    /\ gh_issues = <<>>
    /\ gh_prs = <<>>
    /\ ledgerDown = {}
    /\ passes = <<>>
    /\ answered = NoneAnswered
    /\ calls = NoCalls
    /\ suspended = NoneSuspended
    /\ gh_commits = [ r \in TeamIdx |->
                        [tree |-> InitialTree(r, ScenarioBoard), parents |-> <<>>] ]
    /\ gh_ref = [ r \in TeamIdx |-> 0 ]
    /\ cc = IdleFrame
    /\ cc_calls = 0
    /\ fails = 0
    /\ lg_out = <<>>
    /\ lg_in = <<>>
    /\ lg_op = "none"
    /\ lg_id = ""
    /\ lg_ans = ""
    /\ lg_n = 0
    /\ lg_first = FALSE
    /\ lg_ops = 0
    /\ lg_parsed = <<>>

\* const result = await agent.execute(), returning.
ExecuteReturns ==
    /\ pc = "answer"
    /\ \E r \in ExecuteResults(tm) : agent' = [agent EXCEPT !.result = r]
    /\ pc' = "push"
    /\ UNCHANGED <<tm, results, agents, issuesCreated, prUrl, totalCost, alerts,
                   ledgerDown, sel, ci, cacheLoads, gh_issues, gh_prs, fails>>
    /\ UNCHANGED <<commitVars, ledgerVars, passes, answered, calls, suspended>>

\* An exception leaves the try block before results.push.
ExecuteThrows ==
    /\ pc = "answer"
    /\ pc' = "catch"
    /\ UNCHANGED <<tm, agent, results, agents, issuesCreated, prUrl, totalCost,
                   alerts, ledgerDown, sel, ci, cacheLoads, gh_issues, gh_prs,
                   fails>>
    /\ UNCHANGED <<commitVars, ledgerVars, passes, answered, calls, suspended>>

\* catch (error) { results.push({ team: team.name, success: false, ...,
\* errors: [errorMsg], costEstimate: 0 }) }; then the next team.
CatchFatal ==
    /\ pc = "catch"
    /\ results' = Append(results,
                         [NewResult(TEAMS[tm]) EXCEPT !.errors = <<FatalError>>])
    /\ IF tm < Len(TEAMS)
       THEN tm' = tm + 1 /\ pc' = "newAgent"
       ELSE tm' = tm /\ pc' = "pr"
    /\ UNCHANGED <<agent, agents, issuesCreated, prUrl, totalCost, alerts,
                   ledgerDown, sel, ci, cacheLoads, gh_issues, gh_prs, fails>>
    /\ UNCHANGED <<commitVars, ledgerVars, passes, answered, calls, suspended>>

TeamLoopNext ==
    \/ NewTeamAgent
    \/ ExecuteReturns
    \/ ExecuteThrows
    \/ PushResult
    \/ CatchFatal

SpecTeamLoop == TeamLoopInit /\ [][TeamLoopNext]_vars

(***************************************************************************)
(* Specification of the external calls of a run, one await at a time       *)
(*                                                                         *)
(* Every external call of handleScheduled, TeamAgent and GitHubClient is   *)
(* written "await call(...)": the call is issued, the function is          *)
(* suspended, and the statement that follows runs when the call has        *)
(* settled.  The plan lists the calls of a run in program order for teams  *)
(* with n selected questions each and two pending files each, the working  *)
(* branch existing; a call that throws skips the rest of its try block.    *)
(***************************************************************************)
Call(scope, team, item, op) ==
    [scope |-> scope, team |-> team, item |-> item, op |-> op]

\* One pass of the loop of answerQuestions: mnemo.query, then updateQABoard,
\* which fetches the ledger.
CallsOfQuestion(tmi, q) ==
    << Call("question", tmi, q, "query"), Call("question", tmi, q, "getFile") >>

RECURSIVE CallsOfQuestions(_, _, _)
CallsOfQuestions(tmi, q, n) ==
    IF q > n THEN <<>>
    ELSE CallsOfQuestion(tmi, q) \o CallsOfQuestions(tmi, q + 1, n)

\* execute() of one team: the fetch of the ledger and the loop of the Answer
\* phase, the fetch of the ledger of the Review phase, the query and the
\* fetch of the digest of Check-updates, the queries of Plan and Readme-audit.
CallsOfPipeline(tmi, n) ==
    << Call("answer", tmi, 0, "getFile") >>
      \o CallsOfQuestions(tmi, 1, n)
      \o << Call("review", tmi, 0, "getFile"),
            Call("mcp", tmi, 0, "query"), Call("mcp", tmi, 0, "getFile"),
            Call("plan", tmi, 0, "query"),
            Call("readme", tmi, 0, "query") >>

\* One pass of the commit loop: branchExists, then the requests of
\* createCommit for two files.
CallsOfCommit(tmi) ==
    << Call("branch", tmi, 0, "branchExists"),
       Call("commit", tmi, 0, "getRef"), Call("commit", tmi, 0, "getCommit"),
       Call("commit", tmi, 0, "blob"), Call("commit", tmi, 0, "blob"),
       Call("commit", tmi, 0, "tree"), Call("commit", tmi, 0, "commit"),
       Call("commit", tmi, 0, "patch") >>

RECURSIVE CallsOfTeams(_, _)
CallsOfTeams(tmi, n) ==
    IF tmi > Len(TEAMS) THEN <<>>
    ELSE CallsOfPipeline(tmi, n) \o CallsOfTeams(tmi + 1, n)

RECURSIVE CallsOfCommits(_)
CallsOfCommits(tmi) ==
    IF tmi > Len(TEAMS) THEN <<>>
    ELSE CallsOfCommit(tmi) \o CallsOfCommits(tmi + 1)

\* The team loop, then the commit loop.
RunCalls(n) == CallsOfTeams(1, n) \o CallsOfCommits(1)

\* getFile and branchExists catch the failure of their request.
CatchesOwnFailure(c) == c.op \in {"getFile", "branchExists"}

SameTryBlock(c, d) ==
    c.scope = d.scope /\ c.team = d.team /\ c.item = d.item

\* Where the run goes on after call i has failed: at the next call when the
\* callee caught the failure, else past the calls left in the try block.
AfterFailure(plan, i) ==
    IF CatchesOwnFailure(plan[i]) THEN i + 1
    ELSE LET later == { j \in (i + 1)..Len(plan) : ~SameTryBlock(plan[i], plan[j]) }
         IN  IF later = {} THEN Len(plan) + 1
             ELSE CHOOSE j \in later : \A l \in later : j <= l

CallsInit ==
    /\ \E n \in 0..MaxSelected :
          calls = [plan |-> RunCalls(n), at |-> 1, inflight |-> {}]
    /\ suspended = NoneSuspended
    /\ pc = "idle"
    /\ tm = 0
    /\ agent = NewAgent(1)
    /\ results = <<>>
    /\ agents = <<>>
    /\ issuesCreated = <<>>
    /\ prUrl = Undefined
    /\ totalCost = 0
    /\ alerts = 0
    /\ sel = <<>>
    /\ ci = 0
    /\ cacheLoads = 0
    /\ gh_issues = <<>>
    /\ gh_prs = <<>>
    /\ ledgerDown = {}
    /\ passes = <<>>
    /\ answered = NoneAnswered
    /\ gh_commits = [ r \in TeamIdx |->
                        [tree |-> InitialTree(r, ScenarioBoard), parents |-> <<>>] ]
    /\ gh_ref = [ r \in TeamIdx |-> r ]
    /\ cc = IdleFrame
    /\ cc_calls = 0
    /\ fails = 0
    /\ lg_out = <<>>
    /\ lg_in = <<>>
    /\ lg_op = "none"
    /\ lg_id = ""
    /\ lg_ans = ""
    /\ lg_n = 0
    /\ lg_first = FALSE
    /\ lg_ops = 0
    /\ lg_parsed = <<>>

\* Calls issued without awaiting: the next statement runs at once.
IssueCallUnawaited ==
    /\ calls.at <= Len(calls.plan)
    /\ calls' = [calls EXCEPT !.inflight = @ \cup {calls.at}, !.at = @ + 1]
    /\ UNCHANGED <<commitVars, fails, ledgerVars>>
    /\ UNCHANGED <<pc, tm, agent, results, agents, issuesCreated, prUrl,
                   totalCost, alerts, sel, ci, cacheLoads, gh_issues, gh_prs,
                   ledgerDown, passes, answered,
                   suspended>>

\* await call(...): the call the run stands at is issued.
IssueCall ==
    /\ calls.at <= Len(calls.plan)
    /\ calls.at \notin calls.inflight
    /\ calls' = [calls EXCEPT !.inflight = @ \cup {calls.at}]
    /\ UNCHANGED <<commitVars, fails, ledgerVars>>
    /\ UNCHANGED <<pc, tm, agent, results, agents, issuesCreated, prUrl,
                   totalCost, alerts, sel, ci, cacheLoads, gh_issues, gh_prs,
                   ledgerDown, passes, answered,
                   suspended>>

\* The awaited call settles, and the run goes on at the next statement or,
\* after a throw, behind the try block.
SettleCall ==
    /\ calls.at \in calls.inflight
    /\ \E ok \in BOOLEAN :
          /\ ok \/ CanFail
          /\ fails' = IF ok THEN fails ELSE fails + 1
          /\ calls' = [calls EXCEPT
                         !.inflight = @ \ {calls.at},
                         !.at = IF ok THEN calls.at + 1
                                ELSE AfterFailure(calls.plan, calls.at)]
    /\ UNCHANGED <<commitVars, ledgerVars>>
    /\ UNCHANGED <<pc, tm, agent, results, agents, issuesCreated, prUrl,
                   totalCost, alerts, sel, ci, cacheLoads, gh_issues, gh_prs,
                   ledgerDown, passes, answered,
                   suspended>>

CallsNext == IssueCall \/ SettleCall

SpecCalls == CallsInit /\ [][CallsNext]_vars

(***************************************************************************)
(* Properties of createCommit (checked under SpecCommit)                   *)
(***************************************************************************)
InCreateCommit ==
    cc.pc \in {"getRef", "getCommit", "blob", "tree", "commit", "patch"}

FilePaths == { cc.files[i].path : i \in 1..Len(cc.files) }

FileContent(p) ==
    cc.files[CHOOSE i \in 1..Len(cc.files) : cc.files[i].path = p].content

\* The paths at which two trees differ: held by one only, or with other blobs.
DiffPaths(t1, t2) ==
    { p \in DOMAIN t1 \cup DOMAIN t2 :
        \/ p \notin DOMAIN t1
        \/ p \notin DOMAIN t2
        \/ t1[p] # t2[p] }

ParentTree == gh_commits[cc.ref0].tree
HeadTree == gh_commits[gh_ref[cc.repo]].tree

\* C1: the PATCH of the branch ref is the last external operation of
\* createCommit.  While any earlier step is pending, and after the call has
\* thrown at whatever step, the ref equals its value at entry; when the ref
\* has moved, the call has returned and the commit it points at holds every
\* file of the call, never a subset.
C1_RefMovesLastAndWhole ==
    /\ (InCreateCommit \/ cc.pc = "thrown") => gh_ref[cc.repo] = cc.ref0
    /\ (cc.pc = "returned") =>
          /\ gh_ref[cc.repo] = cc.sha
          /\ \A p \in FilePaths :
                p \in DOMAIN HeadTree /\ HeadTree[p] = FileContent(p)

\* A call with two files that threw after its first blob was created.
C1_Witness ==
    cc.pc = "thrown" /\ Len(cc.files) = 2 /\ Len(cc.tree) >= 1

\* C2 (as stated): a createCommit whose steps all succeed on K files creates
\* exactly one commit, whose single parent is the head read at the start,
\* whose tree differs from the parent's in exactly K entries, the K pending
\* paths, and leaves the ref at the returned commit.
C2_ExactlyKEntriesDiffer ==
    (cc.pc = "returned") =>
        /\ Len(gh_commits) = cc.commits0 + 1
        /\ gh_commits[cc.sha].parents = <<cc.ref0>>
        /\ DiffPaths(ParentTree, gh_commits[cc.sha].tree) = FilePaths
        /\ Cardinality(DiffPaths(ParentTree, gh_commits[cc.sha].tree))
             = Len(cc.files)
        /\ gh_ref[cc.repo] = cc.sha

\* C2 (amended): a createCommit whose steps all succeed on K files creates
\* exactly one commit, whose single parent is the head read at the start and
\* whose tree is the parent's with the K pending paths set to their pending
\* contents; the trees differ in exactly the pending paths whose content is
\* new to the parent (at most K), and the ref is left at the returned commit.
C2_TreeIsParentPlusFiles ==
    (cc.pc = "returned") =>
        LET new == gh_commits[cc.sha].tree
        IN  /\ Len(gh_commits) = cc.commits0 + 1
            /\ gh_commits[cc.sha].parents = <<cc.ref0>>
            /\ DOMAIN new = DOMAIN ParentTree \cup FilePaths
            /\ \A p \in FilePaths : new[p] = FileContent(p)
            /\ \A p \in DOMAIN ParentTree \ FilePaths : new[p] = ParentTree[p]
            /\ DiffPaths(ParentTree, new) =
                 { p \in FilePaths :
                     p \notin DOMAIN ParentTree \/ ParentTree[p] # FileContent(p) }
            /\ gh_ref[cc.repo] = cc.sha

\* A returned call with two files of which one already had its pending
\* content in the parent.
C2_Witness ==
    /\ cc.pc = "returned"
    /\ Len(cc.files) = 2
    /\ Cardinality(DiffPaths(ParentTree, gh_commits[cc.sha].tree)) = 1

(***************************************************************************)
(* Properties of the ledger operations (checked under SpecLedger)          *)
(***************************************************************************)
NumBlocks(board) == Len(HeaderPositions(board, 1))

BlockLines(board, b) ==
    LET hs == HeaderPositions(board, 1)
    IN  SubSeq(board, hs[b], BlockEnd(board, hs, b))

BlockId(board, b) == board[HeaderPositions(board, 1)[b]].x

\* The texts of the lines of kind k of block b.
BlockTexts(board, b, k) ==
    LET ls == BlockLines(board, b)
    IN  { ls[i].x : i \in { j \in 1..Len(ls) : ls[j].k = k } }

\* Block b is Open and its answer is a waiting placeholder.
OpenAndWaiting(board, b) ==
    /\ BlockTexts(board, b, "status") = {StatusOpen}
    /\ BlockTexts(board, b, "answer") # {}
    /\ BlockTexts(board, b, "answer") \subseteq WaitingTokens

\* C6: when the block headed id is Open with a waiting placeholder, the
\* mutation for id and answer X leaves that block Answered with answer text
\* X and every other block (and the text before the first block) as it was.
C6_OpenBlockGetsAnswerX ==
    ( /\ lg_op = "update"
      /\ \E b \in 1..NumBlocks(lg_in) :
            BlockId(lg_in, b) = lg_id /\ OpenAndWaiting(lg_in, b) )
    =>
    /\ NumBlocks(lg_out) = NumBlocks(lg_in)
    /\ \A b \in 1..NumBlocks(lg_in) :
          IF BlockId(lg_in, b) = lg_id
          THEN /\ BlockTexts(lg_out, b, "status") = {StatusAnswered}
               /\ BlockTexts(lg_out, b, "answer") = {lg_ans}
          ELSE BlockLines(lg_out, b) = BlockLines(lg_in, b)
    /\ SubSeq(lg_out, 1, 1) = SubSeq(lg_in, 1, 1)

\* C7: a second mutation with the same id, applied to the output of a first
\* one that changed the ledger, returns its input unchanged.
C7_SecondApplyIsNoOp ==
    (lg_op = "update" /\ lg_n = 2 /\ lg_first) => lg_out = lg_in

\* C8: whatever the state of the target block, the mutation for id leaves
\* the Answer lines and the Status lines of every block not headed id as
\* they were.
C8_OtherBlocksUntouched ==
    (lg_op = "update") =>
        /\ NumBlocks(lg_out) = NumBlocks(lg_in)
        /\ \A b \in 1..NumBlocks(lg_in) :
              BlockId(lg_in, b) # lg_id =>
                /\ BlockTexts(lg_out, b, "answer") = BlockTexts(lg_in, b, "answer")
                /\ BlockTexts(lg_out, b, "status") = BlockTexts(lg_in, b, "status")

\* Whether block b carries a From/To line the pattern matches.
HasParseableFrom(board, b) ==
    LET ls == BlockLines(board, b)
    IN  \E i \in 1..Len(ls) : ls[i].k = "from" /\ ls[i].x # "" /\ ls[i].y # ""

WellFormedBlocks(board) ==
    { b \in 1..NumBlocks(board) : HasParseableFrom(board, b) }

\* The k-th smallest element of a set of numbers.
RECURSIVE Kth(_, _)
Kth(S, k) ==
    LET m == CHOOSE x \in S : \A y \in S : x <= y
    IN  IF k = 1 THEN m ELSE Kth(S \ {m}, k - 1)

\* The names written on the From/To line of block b, lower-cased.
WrittenFromTo(board, b) ==
    LET ls == BlockLines(board, b)
        i == CHOOSE j \in 1..Len(ls) : ls[j].k = "from"
    IN  <<ToLowerCase(ls[i].x), ToLowerCase(ls[i].y)>>

\* C9: parseQABoard returns exactly one record per block that carries a
\* parseable From/To line, in document order (the k-th record holds the
\* teams of the k-th such block), and none for the other blocks.
C9_ParseReturnsWellFormedBlocks ==
    (lg_op = "parse") =>
        LET wf == WellFormedBlocks(lg_in)
        IN  /\ Len(lg_parsed) = Cardinality(wf)
            /\ \A k \in 1..Len(lg_parsed) :
                  <<lg_parsed[k].askedBy, lg_parsed[k].askedTo>>
                     = WrittenFromTo(lg_in, Kth(wf, k))

\* A parsed ledger in which a well-formed block follows a malformed one:
\* the parse returned a record, and fewer records than there are blocks.
C9_Witness ==
    /\ lg_op = "parse"
    /\ Len(lg_parsed) >= 1
    /\ NumBlocks(lg_in) > Len(lg_parsed)
    /\ \E b \in WellFormedBlocks(lg_in) : b > 1 /\ (b - 1) \notin WellFormedBlocks(lg_in)


(***************************************************************************)
(* Properties of a run (checked under Spec, the cost check under SpecCost) *)
(***************************************************************************)
AfterTeamLoop ==
    pc \in {"pr", "branchExists", "createBranch", "commit", "createCommit",
            "createPR", "cost", "stats", "done", "threw"}

C4_OneResultPerTeamInOrder ==
    /\ AfterTeamLoop => Len(results) = Len(TEAMS)
    /\ pc \in {"newAgent", "answer", "review", "mcp", "plan", "readme",
                "finish", "push"} => Len(results) = tm - 1
    /\ Len(results) <= Len(TEAMS)
    /\ \A i \in 1..Len(results) : results[i].team = TEAMS[i].name

\* The team loop is over and failures occurred in the pipelines of two
\* different teams.
C4_Witness ==
    /\ pc = "done"
    /\ results[1].errors # <<>>
    /\ results[3].errors # <<>>
    /\ results[2].errors = <<>>

PendingLedger(ag) ==
    IF \E i \in 1..Len(ag.fileChanges) : ag.fileChanges[i].path = qaPath
    THEN ag.fileChanges[CHOOSE i \in 1..Len(ag.fileChanges) :
                          ag.fileChanges[i].path = qaPath].content
    ELSE <<>>

\* C10: with the scenario ledger on the host (one entry, from nexus to de,
\* Open, waiting placeholder) and the ledger fetched, the Answer phase of de
\* ends with no error, questionsAnswered = 1 and a pending ledger edit in
\* which the entry's status is Answered.
C10_AnswerPhaseAnswersOpenQuestion ==
    ( /\ pc = "review"
      /\ tm = 2
      /\ 2 \notin ledgerDown
      /\ MainTree(1)[qaPath] = ScenarioBoard ) =>
        /\ agent.result.errors = <<>>
        /\ agent.result.questionsAnswered = 1
        /\ StatusLine(StatusAnswered) \in
              { PendingLedger(agent)[i] : i \in 1..Len(PendingLedger(agent)) }


(***************************************************************************)
(* Properties of the commit loop of createPullRequest (checked under Spec) *)
(***************************************************************************)
\* The passes of the commit loop made for repository r.
PassesOf(r) == { i \in 1..Len(passes) : passes[i].repo = r }

\* The passes in which createCommit was invoked for repository r.
CommitCallsOf(r) == { i \in PassesOf(r) : passes[i].createCommit # "none" }

\* The working branch of r is where the run found it (missing, or at the
\* head of main, which is commit r) or one commit beyond that.
AdvancedAtMostOnce(r) ==
    \/ gh_ref[r] \in {0, r}
    \/ gh_commits[gh_ref[r]].parents = <<r>>

\* C11: in a run, createCommit is invoked at most once for each team, and
\* the team's branch ref advances by at most one commit; the commits of the
\* host beyond the initial ones number at most the calls of createCommit.
C11_OneCommitPerTeam ==
    /\ \A r \in TeamIdx :
          /\ Cardinality(CommitCallsOf(r)) <= 1
          /\ AdvancedAtMostOnce(r)
    /\ Len(gh_commits) <= Len(TEAMS) + cc_calls
    /\ cc_calls <= Len(TEAMS)

\* A finished run in which every team's branch is one commit beyond main,
\* the commit of mnemo holding its update digest.
C11_Witness ==
    /\ pc = "done"
    /\ \A r \in TeamIdx : gh_ref[r] # 0 /\ gh_commits[gh_ref[r]].parents = <<r>>
    /\ mcpPath \in DOMAIN gh_commits[gh_ref[3]].tree


\* C12: createBranch is called only in a pass that began with the working
\* branch missing from the repository; when the branch existed, the pass
\* called createCommit and not createBranch.
C12_CreateBranchOnlyWhenMissing ==
    \A i \in 1..Len(passes) :
        passes[i].existed =>
            /\ passes[i].createBranch = "none"
            /\ (i < Len(passes) \/ pc \notin {"commit", "createBranch"})
                  => passes[i].createCommit # "none"


\* The commit loop is over.
AfterCommitLoop == pc \in {"createPR", "cost", "stats", "done", "threw"}

\* C13: a team whose createCommit threw has no second pass and no second
\* call of createCommit in the run, and its branch ref is where the call
\* found it (at the head of main, commit r); the loop goes on: once it is
\* over there is one pass per eligible team, in order, and every pass whose
\* branch was found or created called createCommit.
C13_NoRetryAndLoopGoesOn ==
    /\ \A i \in 1..Len(passes) :
          passes[i].createCommit = "thrown" =>
              /\ PassesOf(passes[i].repo) = {i}
              /\ gh_ref[passes[i].repo] = passes[i].repo
    /\ cc.pc = "thrown" => gh_ref[cc.repo] = cc.ref0
    /\ cc_calls = Cardinality({ i \in 1..Len(passes) : passes[i].createCommit # "none" })
    /\ Len(passes) <= Len(sel)
    /\ \A i \in 1..Len(passes) : passes[i].repo = TeamOf(sel[i].team)
    /\ AfterCommitLoop =>
          /\ Len(passes) = Len(sel)
          /\ \A i \in 1..Len(passes) :
                passes[i].createBranch # "thrown" =>
                    passes[i].createCommit \in {"returned", "thrown"}

\* A finished run in which the createCommit of the first eligible team
\* threw and that of a later team returned.
C13_Witness ==
    /\ pc = "done"
    /\ Len(passes) >= 2
    /\ passes[1].createCommit = "thrown"
    /\ passes[Len(passes)].createCommit = "returned"


(***************************************************************************)
(* Properties of TeamAgent.execute (checked under Spec)                    *)
(***************************************************************************)
\* The phase that follows each phase of execute.
NextPhase ==
    [ answer |-> "review", review |-> "mcp", mcp |-> "plan",
      plan |-> "readme", readme |-> "finish" ]

\* C14: execute starts with the Answer phase, and every step of a phase
\* leads to the next phase in the order Answer, Review, Check-updates, Plan,
\* Readme-audit, whatever errors the phase or earlier phases recorded.
C14_PhasesInFixedOrder ==
    [][ /\ pc = "newAgent" => pc' = "answer"
        /\ \A ph \in DOMAIN NextPhase : pc = ph => pc' = NextPhase[ph] ]_vars

\* The Readme-audit phase is about to start although the Check-updates and
\* the Plan phases both recorded an error.
C14_Witness ==
    /\ pc = "readme"
    /\ Len(agent.result.errors) = 2


\* C15: when a fetch of the ledger has failed for the team being processed,
\* no later phase of its pipeline runs, and the result execute returns has
\* success = FALSE and a recorded error.
C15_UnreachableLedgerAbortsPipeline ==
    (tm \in ledgerDown) =>
        /\ pc \notin {"mcp", "plan", "readme", "finish"}
        /\ pc = "push" =>
              /\ ~agent.result.success
              /\ agent.result.errors # <<>>

(***************************************************************************)
(* Properties of the loop of the Answer phase (checked under SpecAnswer)   *)
(***************************************************************************)
\* The positions of the selection whose processing failed, in order.
FailedItems ==
    SelectSeq([i \in 1..Len(answered.qs) |-> i],
              LAMBDA i : answered.os[i].query = "fail")

\* C16: when the loop over the selected questions has ended, every question
\* of the selection has one outcome; each failed one left one entry in errors
\* (in the order of the selection, naming the question), each other one was
\* counted in questionsAnswered and charged once, so that the answered and
\* the failed add up to the number selected: no failure ended the loop.
C16_AnswerLoopIsolatesFailures ==
    (pc = "review") =>
        /\ Len(answered.os) = Len(answered.qs)
        /\ agent.result.errors =
             [ j \in 1..Len(FailedItems) |->
                 [what |-> "Failed to answer",
                  id |-> answered.qs[FailedItems[j]].id] ]
        /\ agent.result.questionsAnswered + Len(FailedItems) = Len(answered.qs)
        /\ agent.result.costEstimate
             = CostPerAnswer * agent.result.questionsAnswered
        /\ Len(agent.result.docsUpdated) = agent.result.questionsAnswered

\* The first of two selected questions failed and the second was answered.
C16_Witness ==
    /\ pc = "review"
    /\ Len(answered.qs) = 2
    /\ answered.os[1].query = "fail"
    /\ answered.os[2].query # "fail"
    /\ agent.result.questionsAnswered = 1
    /\ Len(agent.result.errors) = 1

(***************************************************************************)
(* Properties of the team loop (checked under SpecTeamLoop)                *)
(***************************************************************************)
FailedResults == { i \in 1..Len(results) : ~results[i].success }

C18_RecordedErrorsLeaveSuccess ==
    /\ (pc = "push" /\ agent.result.errors # <<>>) => agent.result.success
    /\ \A i \in 1..Len(results) :
          results[i].errors # <<>> =>
             /\ results[i].success
             /\ \A j \in 1..Len(issuesCreated) :
                   issuesCreated[j].team # results[i].team
             /\ \A j \in 1..Len(gh_issues) : gh_issues[j] # results[i].team
    /\ Len(issuesCreated) = Cardinality(FailedResults)

\* A finished run in which a team recorded the failures of two phases.
C18_Witness ==
    /\ pc = "done"
    /\ \E i \in 1..Len(results) :
          Len(results[i].errors) = 2 /\ results[i].success
    /\ issuesCreated = <<>>

(***************************************************************************)
(* Properties of the commit loop and the results (checked under Spec)      *)
(***************************************************************************)
\* The summary holds a successful result of team r with an updated path.
Eligible(r) ==
    \E i \in 1..Len(results) :
       /\ results[i].team = TEAMS[r].name
       /\ results[i].success
       /\ Len(results[i].docsUpdated) > 0

\* No pass of the commit loop begins before every team has its result.
CommitsFollowPipelines ==
    (passes # <<>> \/ cc_calls > 0) =>
        /\ Len(results) = Len(TEAMS)
        /\ pc \notin {"loadCache", "newAgent", "answer", "review", "mcp",
                       "plan", "readme", "finish", "push"}

\* C19 as stated: once the commit loop has ended createCommit was invoked
\* for a team if and only if its result is successful with an updated path,
\* and no pass of the loop begins before every pipeline has finished.
C19_CommitIffEligible ==
    /\ CommitsFollowPipelines
    /\ \A r \in TeamIdx :
          /\ CommitCallsOf(r) # {} => Eligible(r)
          /\ (AfterCommitLoop /\ Eligible(r)) => CommitCallsOf(r) # {}

\* C19, amended: createCommit is invoked only for a team whose result is
\* successful with an updated path and only after every pipeline has
\* finished; once the commit loop has ended, each such team had one pass of
\* the loop, and createCommit was invoked in it unless createBranch threw.
C19_CommitOnlyIfEligibleAndBranchReady ==
    /\ CommitsFollowPipelines
    /\ \A r \in TeamIdx :
          /\ PassesOf(r) # {} => Eligible(r)
          /\ (AfterCommitLoop /\ Eligible(r)) =>
                /\ Cardinality(PassesOf(r)) = 1
                /\ \A i \in PassesOf(r) :
                      (passes[i].createCommit # "none")
                         <=> (passes[i].createBranch # "thrown")

\* A finished run with a team that had nothing to commit, a team whose
\* createBranch threw, and a team whose commit was made.
C19_Witness ==
    /\ pc = "done"
    /\ \E r \in TeamIdx : ~Eligible(r) /\ PassesOf(r) = {}
    /\ \E i \in 1..Len(passes) :
          passes[i].createBranch = "thrown" /\ passes[i].createCommit = "none"
    /\ \E i \in 1..Len(passes) : passes[i].createCommit = "returned"

C21_RunNeverThrows == pc # "threw"

C23_CacheLoadedOnceBeforeTeams ==
    /\ [](cacheLoads = IF pc = "loadCache" THEN 0 ELSE 1)
    /\ []((pc = "loadCache") =>
            tm = 0 /\ results = <<>> /\ ledgerDown = {} /\ fails = 0)
    /\ [][ (pc = "loadCache") => (pc' = "newAgent" /\ tm' = 1) ]_vars
    /\ [](AfterTeamLoop => Len(results) = Len(TEAMS))

\* The load has failed (the one failure so far) and the pipeline of the
\* first team is about to start.
C23_Witness ==
    /\ pc = "newAgent"
    /\ tm = 1
    /\ cacheLoads = 1
    /\ fails = 1

(***************************************************************************)
(* Properties of the cost alert (checked under SpecCost)                   *)
(***************************************************************************)
\* C24: the step of the cost check leaves results, prUrl and issuesCreated
\* as they were, sets totalCost to the sum of the estimates and goes on to
\* the statistics, whether the alert was delivered, failed or was not due:
\* a failed delivery changes nothing of what the summary will hold.
C24_FailedAlertIsSwallowed ==
    /\ [][ (pc = "cost") =>
             /\ pc' = "stats"
             /\ results' = results
             /\ prUrl' = prUrl
             /\ issuesCreated' = issuesCreated
             /\ totalCost' = SumCost(results) ]_vars
    /\ []((pc \in {"stats", "done"}) => totalCost = SumCost(results))

\* The run has finished after the threshold was exceeded and the delivery
\* of the alert failed (the one failure of the run).
C24_Witness ==
    /\ pc = "done"
    /\ alerts = 1
    /\ fails = 1
    /\ ExceedsThreshold(totalCost)

(***************************************************************************)
(* Properties of the parsed records (checked under SpecLedger)             *)
(***************************************************************************)
\* C25: every record parseQABoard returns carries the identifier of the
\* header of its own block (the k-th record that of the k-th block with a
\* parseable From/To line), so that records of different blocks differ in
\* their ids; every header of the ledger holds a number, so no record has
\* the placeholder id.
C25_RecordCarriesHeaderId ==
    (lg_op = "parse") =>
        LET wf == WellFormedBlocks(lg_in)
        IN  /\ \A k \in 1..Len(lg_parsed) :
                  /\ lg_parsed[k].id = BlockId(lg_in, Kth(wf, k))
                  /\ lg_parsed[k].id # "000"
            /\ \A k, l \in 1..Len(lg_parsed) :
                  k # l => lg_parsed[k].id # lg_parsed[l].id

(***************************************************************************)
(* Properties of the derived logs (checked under Spec)                     *)
(***************************************************************************)
DerivedLogs == {insightsPath, mcpPath}

\* The header the catch around getFile would seed a new log with:
\* "# Q&A Insights for <displayName> ..." or "# MCP Developer Guide Updates
\* for <displayName> ...".
LogHeader(path, r) == Line("header", path, TEAMS[r].displayName)

\* What a derived log of team r starts from: its content on main, or the
\* header when the file does not exist.
LogBase(path, r) ==
    IF path \in DOMAIN MainTree(r) THEN MainTree(r)[path]
    ELSE <<LogHeader(path, r)>>

\* C26: the pending content of a derived log is what the log starts from
\* (the header template when the file does not exist in the team's
\* repository, the existing content when it does) followed by the new
\* sections.
C26_NewLogStartsWithHeader ==
    \A i \in 1..Len(agents) :
       \A j \in 1..Len(agents[i].fileChanges) :
          LET e == agents[i].fileChanges[j]
              base == LogBase(e.path, agents[i].team)
          IN  e.path \in DerivedLogs =>
                /\ Len(e.content) > Len(base)
                /\ SubSeq(e.content, 1, Len(base)) = base
                /\ \A l \in (Len(base) + 1)..Len(e.content) :
                      e.content[l].k = "section"

(***************************************************************************)
(* Properties of the loop of the Review phase (checked under SpecReview)   *)
(***************************************************************************)
\* The positions of the selection whose review went through, in order.
ReviewedItems ==
    SelectSeq([i \in 1..Len(answered.qs) |-> i],
              LAMBDA i : answered.os[i].query # "fail")

\* The pending content of path in a list of file changes (empty when the
\* path has no entry).
PendingContent(fileChanges, path) ==
    IF \E j \in 1..Len(fileChanges) : fileChanges[j].path = path
    THEN fileChanges[CHOOSE j \in 1..Len(fileChanges) :
                        fileChanges[j].path = path].content
    ELSE <<>>

SectionsOf(content) == SelectSeq(content, LAMBDA l : l.k = "section")

UpdatedPaths(result) ==
    { result.docsUpdated[j] : j \in 1..Len(result.docsUpdated) }

\* C28: the pending edits of the team hold no path twice; after the Review
\* loop and after the Check-updates phase the list getFileChanges returns
\* holds exactly the paths that were written (each write is also listed in
\* docsUpdated), each once; and the content of the insights log is the one
\* the last review wrote, which replaced those of the earlier reviews.
C28_OnePendingContentPerPath ==
    LET fc == getFileChanges(agent)
        n == Len(ReviewedItems)
    IN  /\ \A i, j \in 1..Len(fc) : i # j => fc[i].path # fc[j].path
        /\ (pc \in {"mcp", "plan"}) =>
              /\ { fc[i].path : i \in 1..Len(fc) } = UpdatedPaths(agent.result)
              /\ n > 0 =>
                    PendingContent(fc, insightsPath)
                      = Append(getFile(agent.team, insightsPath,
                                       answered.os[ReviewedItems[n]].load),
                               Section(answered.qs[ReviewedItems[n]].id,
                                       answered.os[ReviewedItems[n]].query))

\* Two reviews with different texts wrote the insights log, the update
\* digest was written after them, and two paths are pending.
C28_Witness ==
    /\ pc = "plan"
    /\ Len(ReviewedItems) = 2
    /\ answered.os[ReviewedItems[1]].query # answered.os[ReviewedItems[2]].query
    /\ Len(getFileChanges(agent)) = 2
    /\ agent.result.mcpUpdatesProcessed = 1

(***************************************************************************)
(* Properties of the host during the pipelines (checked under Spec)        *)
(***************************************************************************)
\* C29: as long as a team is without its result, nothing has been written
\* to the host: no commit object beyond the first ones, every working
\* branch as it was at the start (missing, or at the head of main), no
\* createCommit call begun and no pass of the commit loop.
C29_NoHostWriteDuringPipelines ==
    (Len(results) < Len(TEAMS)) =>
        /\ Len(gh_commits) = Len(TEAMS)
        /\ \A r \in TeamIdx : gh_ref[r] \in {0, r}
        /\ cc = IdleFrame
        /\ cc_calls = 0
        /\ passes = <<>>

\* The last pipeline is running, the first team and the current one hold
\* pending edits, and the host is as it was.
C29_Witness ==
    /\ pc = "readme"
    /\ tm = Len(TEAMS)
    /\ agents[1].fileChanges # <<>>
    /\ agent.fileChanges # <<>>
    /\ Len(gh_commits) = Len(TEAMS)

(***************************************************************************)
(* Properties of the selection of the Answer phase (checked under Spec)    *)
(***************************************************************************)
\* The records parsed from the ledger on the host that are addressed to
\* team r and whose Status line says Open.
OpenRecordsFor(r) ==
    LET parsed == parseQABoard(MainTree(1)[qaPath])
    IN  { k \in 1..Len(parsed) :
            /\ parsed[k].askedTo = TEAMS[r].name
            /\ parsed[k].status = MatchGlyph(StatusOpen) }

\* C30: when the Answer phase of a team has ended and the ledger was
\* fetched, the answering service was called once for each record
\* addressed to the team with status Open and for no other record: the
\* calls are as many as those records.
C30_OneAnsweringCallPerOpenRecord ==
    (pc = "review" /\ tm \notin ledgerDown) =>
        Len(answered.os) = Cardinality(OpenRecordsFor(tm))

(***************************************************************************)
(* Properties of the selection of the Review phase (checked under Spec)    *)
(***************************************************************************)
\* The records parsed from the ledger on the host that team r asked, whose
\* Status line says Answered and that hold an answer.
AnsweredRecordsFor(r) ==
    LET parsed == parseQABoard(MainTree(1)[qaPath])
    IN  { k \in 1..Len(parsed) :
            /\ parsed[k].askedBy = TEAMS[r].name
            /\ parsed[k].status = MatchGlyph(StatusAnswered)
            /\ parsed[k].answerBody # Undefined /\ parsed[k].answerBody # "" }

\* The errors a Review phase recorded.
ReviewFailures(result) ==
    SelectSeq(result.errors, LAMBDA e : e.what = "Failed to process answer")

\* C31: when the Review phase of a team has ended and the ledger was
\* fetched, each record the team asked whose status is Answered was
\* processed once, as a review or as a recorded failure: answersReviewed
\* plus the failures of the phase is the number of those records.
C31_ReviewProcessesEveryAnsweredRecord ==
    (pc = "mcp" /\ tm \notin ledgerDown) =>
        agent.result.answersReviewed + Len(ReviewFailures(agent.result))
          = Cardinality(AnsweredRecordsFor(tm))

(***************************************************************************)
(* Specification of the pipeline of one team over given selections         *)
(*                                                                         *)
(* execute() of the team de from the loop of its Answer phase to its       *)
(* return.  The selections of the two loops are given from outside (in a   *)
(* run both are empty, which is the case n = 0 here): up to MaxSelected    *)
(* questions addressed to de, and up to MaxSelected answered questions     *)
(* that de asked.  The ids are the fallback id the parser assigns.         *)
(***************************************************************************)
PipelineSelections ==
    { [i \in 1..n |-> SelectedQuestion("000")] : n \in 0..MaxSelected }

\* A question of de as the filter of reviewAnswers would let it through.
PipelineReviewed ==
    [ReviewedQuestion("000") EXCEPT !.askedBy = "de", !.askedTo = "nexus"]

\* Outcomes of one pass of the Review loop: the insights, or a failed query.
PipelineOutcomes ==
    { [query |-> a, load |-> l] : a \in {"X", "fail"}, l \in BOOLEAN }

PipelineInit ==
    /\ \E qs \in PipelineSelections : answered = [qs |-> qs, os |-> <<>>]
    /\ calls = NoCalls
    /\ suspended = NoneSuspended
    /\ pc = "answerLoop"
    /\ tm = 2
    /\ agent = NewAgent(2)
    /\ results = <<>>
    /\ agents = <<>>
    /\ issuesCreated = <<>>
    /\ prUrl = Undefined
    /\ totalCost = 0
    /\ alerts = 0
    /\ sel = <<>>
    /\ ci = 0
    /\ cacheLoads = 1
    /\ gh_issues = <<>>
    /\ gh_prs = <<>>
    /\ ledgerDown = {}
    /\ passes = <<>>
    /\ gh_commits = [ r \in TeamIdx |->
                        [tree |-> InitialTree(r, ScenarioBoard), parents |-> <<>>] ]
    /\ gh_ref = [ r \in TeamIdx |-> 0 ]
    /\ cc = IdleFrame
    /\ cc_calls = 0
    /\ fails = 0
    /\ lg_out = <<>>
    /\ lg_in = <<>>
    /\ lg_op = "none"
    /\ lg_id = ""
    /\ lg_ans = ""
    /\ lg_n = 0
    /\ lg_first = FALSE
    /\ lg_ops = 0
    /\ lg_parsed = <<>>

\* The loop of reviewAnswers over a selection of n questions.
ReviewGiven ==
    /\ pc = "review"
    /\ \E n \in 0..MaxSelected :
         \E os \in [1..n -> PipelineOutcomes] :
            agent' = ReviewLoop(agent, [i \in 1..n |-> PipelineReviewed], os, 1)
    /\ pc' = "mcp"
    /\ UNCHANGED <<tm, results, agents, issuesCreated, prUrl, totalCost, alerts,
                   sel, ci, cacheLoads, gh_issues, gh_prs, ledgerDown>>
    /\ UNCHANGED <<commitVars, fails, ledgerVars, passes, answered, calls, suspended>>

PipelineNext ==
    \/ AnswerSelected
    \/ ReviewGiven
    \/ checkMCPUpdates
    \/ updateActionPlan
    \/ updateReadme
    \/ execute

SpecPipeline == PipelineInit /\ [][PipelineNext]_vars

(***************************************************************************)
(* Properties of the cost estimate of a team (checked under SpecPipeline)  *)
(***************************************************************************)
\* Whether the query of the Readme-audit phase returned: its failure is the
\* only source of this error.
ReadmeQueryReturned(result) ==
    \A j \in 1..Len(result.errors) :
       result.errors[j].what # "Failed to review README"

\* The responses of the Check-updates phase that were appended to the
\* pending update digest.
DigestTexts(ag) ==
    { PendingContent(ag.fileChanges, mcpPath)[l].y :
        l \in { m \in 1..Len(PendingContent(ag.fileChanges, mcpPath)) :
                  PendingContent(ag.fileChanges, mcpPath)[m].k = "section" } }

\* C32: when execute() returns, the cost estimate of the result, in cents,
\* is 2 for each question answered, 2 for each answer reviewed, 3 for each
\* update processed, 3 if the action plan was updated and 2 if the README
\* query returned; and an update was processed (and charged) only for a
\* response of more than 10 characters.
C32_CostIsSumOfCompletedOperations ==
    (pc = "push") =>
        /\ agent.result.costEstimate
             = 2 * agent.result.questionsAnswered
               + 2 * agent.result.answersReviewed
               + 3 * agent.result.mcpUpdatesProcessed
               + 3 * (IF agent.result.actionPlanUpdated THEN 1 ELSE 0)
               + 2 * (IF ReadmeQueryReturned(agent.result) THEN 1 ELSE 0)
        /\ agent.result.mcpUpdatesProcessed = Cardinality(DigestTexts(agent))
        /\ \A u \in DigestTexts(agent) : TextLength(u) > 10

\* A pipeline has ended in which a question was answered and another one
\* failed, an answer was reviewed, an update was processed, the plan was
\* updated and the README query failed.
C32_Witness ==
    /\ pc = "push"
    /\ agent.result.questionsAnswered = 1
    /\ Len(answered.qs) = 2
    /\ agent.result.answersReviewed = 1
    /\ agent.result.mcpUpdatesProcessed = 1
    /\ agent.result.actionPlanUpdated
    /\ ~ReadmeQueryReturned(agent.result)
    /\ agent.result.costEstimate = 10

(***************************************************************************)
(* Specification of two runs of handleScheduled at their commit phase      *)
(*                                                                         *)
(* The scheduled handler and the handler of POST /trigger both call        *)
(* handleScheduled(env), and neither the handlers nor handleScheduled keep *)
(* a flag of a run in progress.  Each run is suspended at every await and  *)
(* the other may go on meanwhile.  The runs are followed from their call   *)
(* of createCommit for the repository of nexus, whose working branch       *)
(* exists; what precedes it reads the host and writes nothing to it.  cc   *)
(* is the frame of the run that executes, suspended.frame that of the      *)
(* other.                                                                  *)
(***************************************************************************)
\* The scheduled run and the run started through POST /trigger.
ScheduledRun == "scheduled"
TriggeredRun == "trigger"

\* handleScheduled(env) of a run, up to its call of createCommit.
StartRun(run) ==
    /\ suspended.cur = run
    /\ run \notin suspended.started
    /\ \E files \in FileLists(Len(CommitPaths)) :
         cc' = EnterCreateCommit(1, files)
    /\ cc_calls' = cc_calls + 1
    /\ suspended' = [suspended EXCEPT !.started = @ \cup {run}]
    /\ UNCHANGED <<hostVars, fails, ledgerVars>>
    /\ UNCHANGED <<pc, tm, agent, results, agents, issuesCreated, prUrl,
                   totalCost, alerts, sel, ci, cacheLoads, gh_issues, gh_prs,
                   ledgerDown, passes, answered, calls>>

\* async scheduled(event, env, ctx) { ctx.waitUntil(handleScheduled(env)) }
scheduled == StartRun(ScheduledRun)

\* The handler of POST /trigger as it would be with a lock: the request is
\* held back while the other run is inside createCommit.
triggerLocked ==
    /\ suspended.frame.pc \in {"idle", "returned", "thrown"}
    /\ StartRun(TriggeredRun)

\* app.post('/trigger', async (c) => c.json(await handleScheduled(c.env)))
trigger == StartRun(TriggeredRun)

\* The run that executes is suspended at an await and the other run goes on.
Resume ==
    /\ cc' = suspended.frame
    /\ suspended' = [suspended EXCEPT !.frame = cc,
                                      !.cur = IF @ = ScheduledRun
                                              THEN TriggeredRun ELSE ScheduledRun]
    /\ UNCHANGED <<hostVars, cc_calls, fails, ledgerVars>>
    /\ UNCHANGED <<pc, tm, agent, results, agents, issuesCreated, prUrl,
                   totalCost, alerts, sel, ci, cacheLoads, gh_issues, gh_prs,
                   ledgerDown, passes, answered, calls>>

TwoRunsNext == scheduled \/ trigger \/ Resume \/ createCommit

SpecTwoRuns == CommitInit /\ [][TwoRunsNext]_vars

(***************************************************************************)
(* Properties of concurrent runs (checked under SpecTwoRuns)               *)
(***************************************************************************)
\* C33: no run waits for the other.  Whenever it is the turn of a run that
\* has not started, it can start, whatever the other run is doing; and
\* whatever request the executing run stands at, the other run can be
\* resumed before that request is made.
C33_RunsAreNotSerialized ==
    /\ (suspended.cur = TriggeredRun /\ TriggeredRun \notin suspended.started)
          => ENABLED trigger
    /\ (suspended.cur = ScheduledRun /\ ScheduledRun \notin suspended.started)
          => ENABLED scheduled
    /\ ENABLED Resume

\* The triggered run started while the scheduled run was inside
\* createCommit, and both have created a commit on the same parent, the
\* head the branch of nexus had, which the branch still points at.
C33_Witness ==
    /\ suspended.started = {ScheduledRun, TriggeredRun}
    /\ cc.pc = "patch"
    /\ suspended.frame.pc = "patch"
    /\ cc.repo = suspended.frame.repo
    /\ cc.sha # suspended.frame.sha
    /\ gh_commits[cc.sha].parents = gh_commits[suspended.frame.sha].parents
    /\ gh_commits[cc.sha].parents = <<gh_ref[cc.repo]>>

(***************************************************************************)
(* Properties of the pending ledger edit (checked under SpecAnswer)        *)
(***************************************************************************)
\* The positions of the selection whose answer went through, in order.
AnsweredItems ==
    SelectSeq([i \in 1..Len(answered.qs) |-> i],
              LAMBDA i : answered.os[i].query # "fail")

\* The blocks that are Open on main and Answered in the pending edit.
NewlyAnswered(pending, main) ==
    { b \in 1..NumBlocks(main) :
        /\ BlockTexts(main, b, "status") = {StatusOpen}
        /\ b <= NumBlocks(pending)
        /\ BlockTexts(pending, b, "status") = {StatusAnswered} }

\* The questions answered are different entries of the ledger on main, each
\* Open with a waiting placeholder, and every fetch of the ledger succeeded.
AnsweredDistinctOpenEntries ==
    LET main == MainTree(1)[qaPath]
    IN  /\ \A i \in 1..Len(AnsweredItems) :
              /\ answered.os[AnsweredItems[i]].load
              /\ \E b \in 1..NumBlocks(main) :
                    /\ BlockId(main, b) = answered.qs[AnsweredItems[i]].id
                    /\ OpenAndWaiting(main, b)
        /\ \A i, j \in 1..Len(AnsweredItems) :
              i # j => answered.qs[AnsweredItems[i]].id
                         # answered.qs[AnsweredItems[j]].id

PendingPaths(ag) ==
    { getFileChanges(ag)[j].path : j \in 1..Len(getFileChanges(ag)) }

\* C35: for every team whose pipeline has ended, each path its result lists
\* in docsUpdated has a pending edit among the file changes of its agent.
C35_UpdatedDocsArePending ==
    \A i \in 1..Len(results) :
       UpdatedPaths(results[i]) \subseteq PendingPaths(AgentOf(results[i].team))

\* C36: every call of createCommit a run makes is given at least one file:
\* a team selected for the commit loop holds a pending edit.
C36_CommitHasFiles ==
    /\ (cc.pc # "idle") => cc.files # <<>>
    /\ \A i \in 1..Len(sel) : getFileChanges(AgentOf(sel[i].team)) # <<>>

(***************************************************************************)
(* Specification of createPullRequest over agents that hold a ledger edit  *)
(*                                                                         *)
(* In a run no agent reaches the commit phase with a pending ledger edit   *)
(* (the Answer phase selects nothing), so createPullRequest is exercised   *)
(* here on results given from outside: every pipeline has succeeded, and   *)
(* the agents of some teams have answered the second entry of the ledger   *)
(* through updateQABoard.                                                  *)
(***************************************************************************)
\* The agent of team i at the end of execute(), having answered the
\* question with the given id when answers is true.
AgentAfterPipeline(i, answers) ==
    LET qs == IF answers
              THEN <<[SelectedQuestion("2") EXCEPT !.askedTo = TEAMS[i].name]>>
              ELSE <<>>
        a == AnswerLoop(NewAgent(i), qs, [j \in 1..Len(qs) |->
                                            [query |-> "X", load |-> TRUE]], 1)
    IN  [a EXCEPT !.result.success = TRUE,
                  !.result.actionPlanUpdated = TRUE,
                  !.result.docsUpdated = Append(@, actionPlanPath),
                  !.result.costEstimate = @ + CostPerActionPlan]

CommitPhaseInit ==
    /\ \E h \in SUBSET TeamIdx :
          gh_ref = [ r \in TeamIdx |-> IF r \in h THEN r ELSE 0 ]
    /\ gh_commits = [ r \in TeamIdx |->
                        [tree |-> InitialTree(r, TwoOpenBoard), parents |-> <<>>] ]
    /\ \E w \in SUBSET TeamIdx :
          /\ agents = [ i \in TeamIdx |->
                          [team |-> i,
                           fileChanges |-> AgentAfterPipeline(i, i \in w).fileChanges] ]
          /\ results = [ i \in TeamIdx |-> AgentAfterPipeline(i, i \in w).result ]
          /\ agent = AgentAfterPipeline(Len(TEAMS), Len(TEAMS) \in w)
    /\ pc = "pr"
    /\ tm = Len(TEAMS)
    /\ issuesCreated = <<>>
    /\ prUrl = Undefined
    /\ totalCost = 0
    /\ alerts = 0
    /\ sel = <<>>
    /\ ci = 0
    /\ cacheLoads = 1
    /\ gh_issues = <<>>
    /\ gh_prs = <<>>
    /\ ledgerDown = {}
    /\ passes = <<>>
    /\ answered = NoneAnswered
    /\ calls = NoCalls
    /\ suspended = NoneSuspended
    /\ cc = IdleFrame
    /\ cc_calls = 0
    /\ fails = 0
    /\ lg_out = <<>>
    /\ lg_in = <<>>
    /\ lg_op = "none"
    /\ lg_id = ""
    /\ lg_ans = ""
    /\ lg_n = 0
    /\ lg_first = FALSE
    /\ lg_ops = 0
    /\ lg_parsed = <<>>

CommitPhaseNext ==
    \/ createPullRequest
    \/ branchExists
    \/ createBranch
    \/ CommitTeam
    \/ RunCreateCommit
    \/ CommitPassDone
    \/ createPR

SpecCommitPhase == CommitPhaseInit /\ [][CommitPhaseNext]_vars

(***************************************************************************)
(* Properties of the commit of the ledger (checked under SpecCommitPhase)  *)
(***************************************************************************)
\* The repository loadQABoard fetches the ledger from.
LedgerRepo == TeamOf("nexus")

CommitLanded(r) ==
    \E i \in PassesOf(r) : passes[i].createCommit = "returned"

\* C38: createPullRequest comes to its request for a pull request only when
\* the commit of the first selected team has landed: after a pass for that
\* team in which createBranch or createCommit threw, no pull request is
\* requested.
C38_PullRequestOnlyAfterCommit ==
    (pc = "createPR") => CommitLanded(TeamOf(sel[1].team))

====
